---- MODULE Spec2Model ----
(***************************************************************************)
(* Model of the Aparavi client (integrations/aparavi/client.py) and of the *)
(* document-processing facades built on it (tools/llama_parse.py,          *)
(* tools/document_processor.py).                                           *)
(*                                                                         *)
(* One behaviour is one top-level call: Init picks the operation and its   *)
(* arguments, the actions are the steps of that call (every network        *)
(* request is one action), and `outcome` is what the caller finally gets.  *)
(* The remote service and the clock are the environment: every HTTP        *)
(* response and every sleep overshoot is chosen nondeterministically.      *)
(***************************************************************************)
EXTENDS Integers, Sequences, FiniteSets, TLC

VARIABLES
    client,       \* the AparaviClient: what its constructor stored
    op,           \* the top-level operation of this behaviour
    pc,           \* position inside the operation
    args,         \* its arguments
    now,          \* time.time(), in time-units since the call began
    start_time,   \* wait_for_task_ready: start_time
    delay,        \* wait_for_task_ready: delay
    attempt,      \* wait_for_task_ready: loop index (0-based)
    last_status,  \* wait_for_task_ready: last_status
    result,       \* wait_for_task_ready: result (None after a not-found)
    seen,         \* history: the kinds of answer the status checks have given
    task,         \* (token, type) returned by execute_pipeline, or None
    trace,        \* history: every sleep and every network request, in order
    outcome       \* what the top-level call returned or raised

vars == <<client, op, pc, args, now, start_time, delay, attempt, last_status,
          result, seen, task, trace, outcome>>

----------------------------------------------------------------------------
(* Bounds of the model *)

MaxRetries == 3
MaxDelay == 2
MaxTimeout == 7
MaxJitter == 1
MaxTag == 1
ThreadMargin == 2
MaxFiles == 2
MaxObjects == 2
MaxTexts == 2
MaxComponents == 3
MaxParts == 2

(* Program constants *)

MinThreads == 1
MaxThreads == 16
BackoffStep == 2
DefaultMaxRetries == 10
DefaultInitialDelay == 2
HttpErrorFloor == 400
DefaultTimeout == 120

----------------------------------------------------------------------------
(* Python values *)

\* Optional[x]: <<>> is None, <<x>> is x.
None == <<>>
Some(x) == <<x>>

\* None where a ResultBase or a task is expected
NoStatus == [none |-> TRUE]

\* Python truthiness of an Optional number: None and 0 are falsy.
Truthy(o) == o # None /\ o[1] # 0

NoResult == [kind |-> "none"]
Return(v) == [kind |-> "return", val |-> v]
Raise(e, m) == [kind |-> "raise", err |-> e, info |-> m]

\* The exception classes and their base class.
AparaviKinds == {"AparaviError", "AuthenticationError", "ValidationError",
                 "TaskNotFoundError", "PipelineError", "TaskTimeoutError"}

\* isinstance(e, AparaviError)
IsAparaviError(e) == e \in AparaviKinds

----------------------------------------------------------------------------
(* Text: strings are sequences of characters, so that lower() and the      *)
(* substring test are computed, not assumed.                               *)

UpperToLower == [c \in {"A","D","F","I","K","N","O","R","S","T","U"} |->
    CASE c = "A" -> "a" [] c = "D" -> "d" [] c = "F" -> "f" [] c = "I" -> "i"
      [] c = "K" -> "k" [] c = "N" -> "n" [] c = "O" -> "o" [] c = "R" -> "r"
      [] c = "S" -> "s" [] c = "T" -> "t" [] c = "U" -> "u"]

\* str.lower()
Lower(s) == [i \in 1..Len(s) |->
    IF s[i] \in DOMAIN UpperToLower THEN UpperToLower[s[i]] ELSE s[i]]

\* needle in hay
Contains(hay, needle) ==
    \E i \in 0..(Len(hay) - Len(needle)) :
        \A j \in 1..Len(needle) : hay[i + j] = needle[j]

NOT_FOUND == <<"n","o","t"," ","f","o","u","n","d">>

\* Error messages the service may send.
MsgTaskNotFound == <<"T","a","s","k"," ","N","o","t"," ","F","o","u","n","d">>
MsgNotFound == <<"N","O","T"," ","F","O","U","N","D">>
MsgNoSpace == <<"n","o","t","f","o","u","n","d">>
MsgBusy == <<"b","u","s","y">>
MsgEmpty == <<>>
Msgs == {MsgTaskNotFound, MsgNotFound, MsgNoSpace, MsgBusy, MsgEmpty}

----------------------------------------------------------------------------
(* HTTP responses.  code 0 stands for a network-level failure (no response:*)
(* session.request raises a RequestException).  A body is either not JSON  *)
(* or a JSON object; `status` "missing" is an object without that key.     *)

Tags == 0..MaxTag
Tokens == {"tok1"}
Types == {"cpu", "gpu"}

NullData == [shape |-> "null"]
EmptyData == [shape |-> "empty"]
\* an envelope without the `data` key
AbsentData == [shape |-> "absent"]

\* the `error` member of an envelope: absent, null, a string or {message: msg}
ErrAbsent == [shape |-> "absent", msg |-> MsgEmpty]
ErrNull == [shape |-> "null", msg |-> MsgEmpty]
ErrStr(m) == [shape |-> "str", msg |-> m]
ErrMap(m) == [shape |-> "map", msg |-> m]

NotJson == [json |-> FALSE]
Json(s, d, e) == [json |-> TRUE, status |-> s, data |-> d, error |-> e]

Http(c, b) == [code |-> c, body |-> b]
NetFail == [code |-> 0, body |-> NotJson]

\* bodies of error responses
ErrorBodies ==
    {NotJson, Json("Error", NullData, ErrNull), Json("Error", NullData, ErrAbsent)}
    \cup {Json("Error", NullData, ErrMap(m)) : m \in Msgs}
    \cup {Json("Error", NullData, ErrStr(m)) : m \in {MsgTaskNotFound, MsgBusy}}

ErrorCodes == {401, 404, 422, 500, 503}

ErrorResponses == {Http(c, b) : c \in ErrorCodes, b \in ErrorBodies}

----------------------------------------------------------------------------
(* Transport client *)

\* client.py 386-394: the 500 branch; TRUE when TaskNotFoundError is raised.
\* error_data.get('error', {}).get('message', '') raises AttributeError
\* (swallowed) when `error` is null or a string.
is_task_not_found_500(resp) ==
    /\ resp.code = 500
    /\ resp.body.json
    /\ resp.body.error.shape = "map"
    /\ Contains(Lower(resp.body.error.msg), NOT_FOUND)

\* the 500 branch without lower(): a case-sensitive match
is_task_not_found_500_CaseSensitive(resp) ==
    /\ resp.code = 500
    /\ resp.body.json
    /\ resp.body.error.shape = "map"
    /\ Contains(resp.body.error.msg, NOT_FOUND)

\* the generic error of client.py 399: f"API error {code}: {text}"
ApiError(resp) ==
    Raise("AparaviError", [tmpl |-> "API error", code |-> resp.code, text |-> resp.body])

\* the generic error without the status code
ApiError_NoCode(resp) ==
    Raise("AparaviError", [tmpl |-> "API error", text |-> resp.body])

\* client.py 405-407: a RequestException becomes AparaviError("Request failed: ...").
\* response.json() on a body that is not JSON raises requests' JSONDecodeError,
\* which is a RequestException.
RequestFailed == Raise("AparaviError", [tmpl |-> "Request failed"])

\* _make_request without the check for 401
make_request_NoAuth(resp) ==
    IF resp.code = 0 THEN RequestFailed
    ELSE IF resp.code = 422
        THEN Raise("ValidationError", [tmpl |-> "Validation error", text |-> resp.body])
    ELSE IF is_task_not_found_500(resp)
        THEN Raise("TaskNotFoundError", [tmpl |-> "", text |-> resp.body.error])
    ELSE IF resp.code >= HttpErrorFloor THEN ApiError(resp)
    ELSE IF resp.body.json THEN Return(resp.body)
    ELSE RequestFailed

\* _make_request with the check for 422 placed after the generic one
make_request_WrongOrder(resp) ==
    IF resp.code = 0 THEN RequestFailed
    ELSE IF resp.code = 401
        THEN Raise("AuthenticationError", [tmpl |-> "Invalid API key or authentication failed"])
    ELSE IF is_task_not_found_500(resp)
        THEN Raise("TaskNotFoundError", [tmpl |-> "", text |-> resp.body.error])
    ELSE IF resp.code >= HttpErrorFloor THEN ApiError(resp)
    ELSE IF resp.code = 422
        THEN Raise("ValidationError", [tmpl |-> "Validation error", text |-> resp.body])
    ELSE IF resp.body.json THEN Return(resp.body)
    ELSE RequestFailed

\* AparaviClient._make_request: the response to the value returned or the
\* exception raised.
make_request(resp) ==
    IF resp.code = 0 THEN RequestFailed
    ELSE IF resp.code = 401
        THEN Raise("AuthenticationError", [tmpl |-> "Invalid API key or authentication failed"])
    ELSE IF resp.code = 422
        THEN Raise("ValidationError", [tmpl |-> "Validation error", text |-> resp.body])
    ELSE IF is_task_not_found_500(resp)
        THEN Raise("TaskNotFoundError", [tmpl |-> "", text |-> resp.body.error])
    ELSE IF resp.code >= HttpErrorFloor THEN ApiError(resp)
    ELSE IF resp.body.json THEN Return(resp.body)
    ELSE RequestFailed

\* str(result.error): "None" for None, the string itself, or the repr of
\* the mapping, which contains the message text.
StrOfError(e) ==
    IF e.shape \in {"null", "absent"} THEN <<"N","o","n","e">>
    ELSE IF e.shape = "str" THEN e.msg
    ELSE <<"{">> \o e.msg \o <<"}">>

\* ResultBase(status=response['status'], data=response.get('data'),
\*            error=response.get('error')); an absent key reads as None.
\* (`metrics` is carried nowhere in the logic and is left out.)
ResultBase(body) ==
    [status |-> body.status,
     data |-> IF body.data.shape = "absent" THEN NullData ELSE body.data,
     error |-> IF body.error.shape = "absent" THEN ErrNull ELSE body.error]

\* response['status'] on an object without that key
MissingStatus == Raise("KeyError", [tmpl |-> "status"])

\* AparaviClient.get_task_status, from the HTTP response on
get_task_status(resp) ==
    LET r == make_request(resp) IN
    IF r.kind = "raise" THEN r
    ELSE IF r.val.status = "missing" THEN MissingStatus
    ELSE LET rb == ResultBase(r.val) IN
        IF rb.status = "Error"
        THEN IF Contains(Lower(StrOfError(rb.error)), NOT_FOUND)
             THEN Raise("TaskNotFoundError", [tmpl |-> "Task not found", text |-> rb.error])
             ELSE Raise("AparaviError", [tmpl |-> "Failed to get task status", text |-> rb.error])
        ELSE Return(rb)

\* validate_pipe that hands back the envelope whatever its status
validate_pipe_NoRaise(resp) ==
    LET r == make_request(resp) IN
    IF r.kind = "raise" THEN r
    ELSE IF r.val.status = "missing" THEN MissingStatus
    ELSE Return(ResultBase(r.val))

\* AparaviClient.validate_pipe, from the HTTP response on
validate_pipe(resp) ==
    LET r == make_request(resp) IN
    IF r.kind = "raise" THEN r
    ELSE IF r.val.status = "missing" THEN MissingStatus
    ELSE LET rb == ResultBase(r.val) IN
        IF rb.status = "Error"
        THEN Raise("PipelineError", [tmpl |-> "Pipeline validation failed", text |-> rb.error])
        ELSE Return(rb)

----------------------------------------------------------------------------
(* What the service may answer *)

\* `data` of a status envelope: absent, null, {}, or a mapping with or
\* without serviceUp; `notes` is the number of strings in its notes list, which
\* also tells two otherwise equal statuses apart.
StatusData ==
    {AbsentData, NullData, EmptyData}
    \cup {[shape |-> "map", serviceUp |-> u, notes |-> n] : u \in {"true", "false"}, n \in Tags}
    \cup {[shape |-> "map", serviceUp |-> "missing", notes |-> 0]}

StatusResponses ==
    {Http(200, Json("OK", d, ErrNull)) : d \in StatusData}
    \cup {Http(200, b) : b \in ErrorBodies}
    \cup {Http(200, Json("missing", NullData, ErrNull))}
    \cup ErrorResponses
    \cup {NetFail}

\* the responses _make_request is tried on by itself
RequestCodes == {200, 201, 400, 401, 403, 404, 422, 429, 500, 502, 503, 599}

RequestResponses ==
    {Http(c, b) : c \in RequestCodes,
                  b \in ErrorBodies \cup {Json("OK", d, ErrNull) : d \in StatusData}}
    \cup {NetFail}

ValidateResponses ==
    {Http(200, Json(s, NullData, ErrNull)) : s \in {"OK", "Warning", "Error", "missing"}}
    \cup {Http(200, Json("Error", NullData, ErrMap(MsgBusy))), Http(200, NotJson)}
    \cup ErrorResponses
    \cup {NetFail}

----------------------------------------------------------------------------
(* Upload envelopes and the text they carry *)

\* A string is Plain(chars); the string json.dumps makes of a value is
\* JsonDumps(value), the serialisation of the whole value and so equal to
\* no string inside it.
Plain(chars) == [plain |-> chars]
JsonDumps(d) == [dumps |-> d]

TextAbc == Plain(<<"a","b","c">>)
TextBlank == Plain(<<>>)

\* the `text` member of an object: absent, null, a list of strings, or (off
\* contract) a bare string
TextAbsent == [shape |-> "absent", items |-> <<>>]
TextNull == [shape |-> "null", items |-> <<>>]
TextList(items) == [shape |-> "list", items |-> items]
TextStr(str) == [shape |-> "str", items |-> <<str>>]

\* an entry of `objects`: a mapping, or (off contract) not a mapping
Object(text) == [kind |-> "map", text |-> text]
NotAnObject == [kind |-> "str"]

\* the `objects` member of the data: absent, null, or a mapping whose
\* entries are listed in iteration order (the keys are opaque)
ObjectsAbsent == [shape |-> "absent", items |-> <<>>]
ObjectsNull == [shape |-> "null", items |-> <<>>]
ObjectsMap(items) == [shape |-> "map", items |-> items]

ObjectsData(objects) == [shape |-> "map", objects |-> objects]

\* sequences over S of length 0..n
RECURSIVE SeqsUpTo(_, _)
SeqsUpTo(S, n) ==
    IF n = 0 THEN {<<>>}
    ELSE LET shorter == SeqsUpTo(S, n - 1) IN
         shorter \cup {Append(q, x) : q \in {t \in shorter : Len(t) = n - 1}, x \in S}

\* the envelopes process_response is tried on
\* the string '{"content": "abc"}': the JSON encoding of a mapping with a
\* content key
TextEncoded == JsonDumps([content |-> TextAbc])
TextElems == {TextAbc, TextBlank, TextEncoded}
Texts ==
    {TextAbsent, TextNull, TextStr(TextAbc), TextStr(TextBlank)}
    \cup {TextList(l) : l \in SeqsUpTo(TextElems, MaxTexts)}
ObjectEntries == {NotAnObject} \cup {Object(t) : t \in Texts}
\* the entries after the first
FurtherEntries == {NotAnObject, Object(TextList(<<TextBlank>>)), Object(TextList(<<TextAbc>>))}
EnvelopeData ==
    {AbsentData, NullData, EmptyData, ObjectsData(ObjectsAbsent), ObjectsData(ObjectsNull)}
    \cup {ObjectsData(ObjectsMap(<<>>))}
    \cup {ObjectsData(ObjectsMap(<<o>> \o l)) :
            o \in ObjectEntries, l \in SeqsUpTo(FurtherEntries, MaxObjects - 1)}
Envelopes == {Json(st, d, ErrNull) : st \in {"OK", "Error", "missing"}, d \in EnvelopeData}

----------------------------------------------------------------------------
(* Pipeline configurations, as far as insert_llama_key looks into them *)

\* the key of the LlamaParseClient, and a key a pipeline file may already hold
LlamaKey == "llx-key"
OldKey == "old-key"

\* the `default` member of a component's config, and the config itself:
\* absent, or a mapping
DefaultAbsent == [shape |-> "absent"]
DefaultMap(k) == [shape |-> "map", api_key |-> k]
ConfigAbsent == [shape |-> "absent"]
ConfigMap(d) == [shape |-> "map", default |-> d]

\* a config that holds more than the key: a member beside `default`, and
\* in `default` a member beside api_key
ConfigFull == ConfigMap(DefaultMap(OldKey) @@ [lang |-> "en"]) @@ [mode |-> "fast"]

Configs ==
    {ConfigAbsent, ConfigMap(DefaultAbsent), ConfigFull}
    \cup {ConfigMap(DefaultMap(k)) : k \in {"absent", OldKey}}

Components == [provider : {"llamaparse", "other"}, config : Configs]

\* pipeline_data: without a components list, or with one
ComponentsAbsent == [shape |-> "absent", items |-> <<>>]
ComponentsList(l) == [shape |-> "list", items |-> l]

Pipelines ==
    {[components |-> ComponentsAbsent]}
    \cup {[components |-> ComponentsList(l)] : l \in SeqsUpTo(Components, MaxComponents)}

----------------------------------------------------------------------------
(* Paths (utils/path_utils.py): a pathlib.Path is absolute or relative and  *)
(* has a sequence of parts.                                                  *)

AbsPath(parts) == [abs |-> TRUE, parts |-> parts]
RelPath(parts) == [abs |-> FALSE, parts |-> parts]

\* where the package is installed: Path(__file__).parent.parent.resolve()
get_package_root == AbsPath(<<"opt", "src">>)

\* the directories the process may be working in
WorkingDirs == {get_package_root, AbsPath(<<"home">>), AbsPath(<<>>)}

\* the paths handed to get_resource_path
ResourcePaths ==
    {RelPath(l) : l \in SeqsUpTo({"resources", "pipe.json"}, MaxParts) \ {<<>>}}
    \cup {AbsPath(<<"etc", "pipe.json">>)}

\* Path.resolve(): a relative path is made absolute from the current
\* working directory
resolve(path, cwd) ==
    IF path.abs THEN path ELSE AbsPath(cwd.parts \o path.parts)

\* PathUtils.normalize_path
normalize_path(path, cwd) == resolve(path, cwd)

\* the operator / of pathlib: an absolute right operand replaces the left
JoinPath(left, right) ==
    IF right.abs THEN right ELSE [abs |-> left.abs, parts |-> left.parts \o right.parts]

\* PathUtils.get_resource_path
get_resource_path(resource_path, cwd) ==
    JoinPath(get_package_root, normalize_path(resource_path, cwd))

----------------------------------------------------------------------------
(* History *)

Sleep(d) == [ev |-> "sleep", d |-> d]
Req(m, ep, q, ans) == [ev |-> "req", m |-> m, ep |-> ep, q |-> q, ans |-> ans]
NoQuery == [none |-> TRUE]

\* the requests of a kind among the events of a history
IsReq(e, m, ep) == e.ev = "req" /\ e.m = m /\ e.ep = ep
Count(h, m, ep) == Len(SelectSeq(h, LAMBDA e : IsReq(e, m, ep)))

----------------------------------------------------------------------------
(* The operations and their arguments *)

LlamaOps == {"llama_parse_document_parser", "ocr_system_diagram_parser"}
FacadeOps == LlamaOps \cup {"process_document"}
\* tests/test_aparavi_connection.py: the operation is the body of its try
\* block (lines 60-99), whose exception the handlers of lines 101-104 print
ScriptOps == {"test_aparavi_connection"}
Ops == {"make_request", "wait_for_task_ready", "execute_pipeline",
        "create_and_wait_for_task", "end_task", "process_response",
        "send_payload_to_webhook", "insert_llama_key", "get_task_status",
        "get_resource_path", "process_document_extraction"}
       \cup FacadeOps \cup ScriptOps

\* the operations whose caller chooses the polling arguments
PollArgOps == {"wait_for_task_ready", "create_and_wait_for_task"}

TimeoutArgs == {None} \cup {Some(t) : t \in 0..MaxTimeout}
ThreadArgs == {None} \cup {Some(n) : n \in (MinThreads - ThreadMargin)..(MaxThreads + ThreadMargin)}
NameArgs == {None, Some("job")}

ArgsOf(o) ==
    CASE o = "make_request" ->
            [resp : RequestResponses]
      [] o = "wait_for_task_ready" ->
            [token : {"tok1"}, type : Types, max_retries : 0..MaxRetries,
             initial_delay : 0..MaxDelay, timeout : TimeoutArgs]
      [] o = "execute_pipeline" ->
            [name : NameArgs, threads : ThreadArgs]
      [] o = "create_and_wait_for_task" ->
            [name : {Some("job")}, threads : {None}, max_retries : 0..MaxRetries,
             initial_delay : 0..MaxDelay, timeout : {None, Some(MaxTimeout)}]
      [] o \in {"end_task", "get_task_status"} ->
            [token : Tokens, type : Types]
      [] o \in {"process_response", "process_document_extraction"} ->
            [response : Envelopes]
      [] o = "get_resource_path" ->
            [resource_path : ResourcePaths, cwd : WorkingDirs]
      [] o = "insert_llama_key" ->
            [pipeline_data : Pipelines]
      [] o = "send_payload_to_webhook" ->
            \* matched: the number of files glob.glob(file_glob) finds
            [token : Tokens, task_type : Types, matched : 0..MaxFiles]
      [] o \in LlamaOps ->
            [file_path : {"doc"}, config_exists : BOOLEAN, file_exists : BOOLEAN]
      [] o = "process_document" ->
            [file_path : {"doc"}, file_exists : BOOLEAN]
      [] o \in ScriptOps ->
            {[file_path |-> "doc"]}

\* the arguments wait_for_task_ready runs with
\* (the facades leave max_retries, initial_delay and timeout to the defaults
\* of create_and_wait_for_task, client.py 298-300)
poll_token == IF op = "wait_for_task_ready" THEN args.token ELSE task.token
\* the status checks made with a fixed type instead of the task's own
poll_type_Fixed == IF op = "wait_for_task_ready" THEN args.type ELSE "cpu"
poll_type == IF op = "wait_for_task_ready" THEN args.type ELSE task.type
max_retries == IF op \in PollArgOps THEN args.max_retries ELSE DefaultMaxRetries
initial_delay == IF op \in PollArgOps THEN args.initial_delay ELSE DefaultInitialDelay
timeout == IF op \in PollArgOps THEN args.timeout ELSE None

\* the arguments execute_pipeline runs with (the facades and the test pass
\* a name and threads=None, llama_parse.py 109-113 and 193-197,
\* test_aparavi_connection.py 63-67)
name_arg ==
    IF op \in FacadeOps THEN Some("Process doc")
    ELSE IF op \in ScriptOps THEN Some("API Connection Test")
    ELSE args.name
threads_arg == IF op \in FacadeOps \cup ScriptOps THEN None ELSE args.threads

\* the arguments end_task runs with
end_token == IF op = "end_task" THEN args.token ELSE task.token
end_type == IF op = "end_task" THEN args.type ELSE task.type

\* client.py 25-47: AparaviClient.__init__
AparaviClient(base_url, api_key, request_timeout, logs) ==
    [base_url |-> base_url,
     api_key |-> api_key,
     timeout |-> request_timeout,
     logs |-> logs,
     headers |-> [Authorization |-> <<"Bearer", api_key>>,
                  ContentType |-> "application/json"]]

\* mcp-server.py 34-37: the one client of the server, built at start-up
SharedClient == AparaviClient("base_url", "api_key", DefaultTimeout, "verbose")

Init ==
    /\ client = SharedClient
    /\ op \in Ops
    /\ args \in ArgsOf(op)
    /\ pc = CASE op = "wait_for_task_ready" -> "warmup"
               [] op \in {"execute_pipeline", "create_and_wait_for_task"} \cup ScriptOps
                    -> "validate"
               [] op = "end_task" -> "end"
               [] OTHER -> "start"
    /\ now = 0
    /\ start_time = 0
    /\ delay = 0
    /\ attempt = 0
    /\ last_status = NoStatus
    /\ result = NoStatus
    /\ seen = {}
    /\ task = NoStatus
    /\ trace = <<>>
    /\ outcome = NoResult

----------------------------------------------------------------------------
(* _make_request called on its own *)

MakeRequestCall ==
    /\ op = "make_request"
    /\ pc = "start"
    /\ outcome' = make_request(args.resp)
    /\ pc' = "done"
    /\ UNCHANGED <<client, op, args, now, start_time, delay, attempt, last_status,
                   result, seen, task, trace>>

----------------------------------------------------------------------------
(* wait_for_task_ready *)

\* client.py 182: timeout and (time.time() - start_time) > timeout
\* the timeout check with a grace of one backoff step
timed_out_Late(t, elapsed) == Truthy(t) /\ elapsed > t[1] + BackoffStep

timed_out(t, elapsed) == Truthy(t) /\ elapsed > t[1]

\* a readiness test that is content with any non-empty data
is_ready_AnyData(st) == st.data.shape = "map"

\* client.py 193: result.data and result.data.get("serviceUp")
is_ready(st) == st.data.shape = "map" /\ st.data.serviceUp = "true"

\* the kind of answer of a status check
Kind(r) ==
    IF r.kind = "raise" THEN r.err
    ELSE IF is_ready(r.val) THEN "up" ELSE "unready"

\* how a status check is recorded in the history: the service said the
\* task is up, it did not (an unready status, or not found), or the check
\* failed with another error
Answer(r) ==
    IF r.kind = "return" THEN (IF is_ready(r.val) THEN "up" ELSE "notup")
    ELSE IF r.err = "TaskNotFoundError" THEN "notup"
    ELSE r.err

\* create_and_wait_for_task that returns whether or not the task is ready
create_and_wait_result_Lenient(t, r) ==
    IF r.kind = "raise" THEN r
    ELSE Return([token |-> t.token, type |-> t.type, status |-> r.val.status])

\* client.py 335-339: what create_and_wait_for_task makes of the result of
\* wait_for_task_ready
create_and_wait_result(t, r) ==
    IF r.kind = "raise" THEN r
    ELSE IF ~r.val.ready
        THEN Raise("TaskTimeoutError", [tmpl |-> "failed to become ready after attempts"])
    ELSE Return([token |-> t.token, type |-> t.type, status |-> r.val.status])

\* wait_for_task_ready ends with r: the caller gets it, or
\* create_and_wait_for_task goes on from it; a facade goes on to the upload
\* when create_and_wait_for_task returned and lets its exception through
\* otherwise (llama_parse.py 109-120, 193-204: no handler).
PollEnd(r) ==
    /\ IF op = "wait_for_task_ready"
       THEN outcome' = r /\ pc' = "done"
       ELSE LET cw == create_and_wait_result(task, r) IN
            IF op = "create_and_wait_for_task" \/ cw.kind = "raise"
            THEN outcome' = cw /\ pc' = "done"
            ELSE outcome' = outcome /\ pc' = "upload"
    /\ UNCHANGED task

\* time.sleep(d): the clock advances by at least d.  The overshoot also
\* covers the time the surrounding requests take.  The clock is read only
\* when a timeout is configured (client.py 182), so without one the
\* overshoot is not observable and is left out.
Slept(d) ==
    /\ trace' = Append(trace, Sleep(d))
    /\ \E j \in 0..MaxJitter :
        /\ Truthy(timeout) \/ j = 0
        /\ now' = now + d + j

\* a warm-up that reads the clock only after its sleep
WarmUp_ClockAfterSleep ==
    /\ pc = "warmup"
    /\ delay' = initial_delay
    /\ last_status' = NoStatus
    /\ attempt' = 0
    /\ Slept(initial_delay)
    /\ start_time' = now'
    /\ pc' = "poll"
    /\ UNCHANGED <<client, op, args, result, seen, task, outcome>>

\* client.py 173-179
WarmUp ==
    /\ pc = "warmup"
    /\ delay' = initial_delay
    /\ start_time' = now
    /\ last_status' = NoStatus
    /\ attempt' = 0
    /\ Slept(initial_delay)
    /\ pc' = "poll"
    /\ UNCHANGED <<client, op, args, result, seen, task, outcome>>

\* client.py 182-184: the timeout check at the head of an attempt
PollTimeout ==
    /\ pc = "poll"
    /\ attempt < max_retries
    /\ timed_out(timeout, now - start_time)
    /\ PollEnd(Raise("TaskTimeoutError", [tmpl |-> "failed to become ready within"]))
    /\ UNCHANGED <<client, op, args, now, start_time, delay, attempt, last_status,
                   result, seen, trace>>

\* client.py 188-220: what one attempt does with the result r of its status
\* check: "return", "raise" or "continue" (sleep and go on)
\* poll_step that hands back the status of the attempt before on success
poll_step_ReadyStale(r, att, retries, last) ==
    IF r.kind = "return" /\ is_ready(r.val)
        THEN [next |-> "end", res |-> Return([ready |-> TRUE, status |-> last])]
    ELSE IF r.kind = "raise" /\ r.err # "TaskNotFoundError"
        THEN [next |-> "end",
              res |-> Raise("AparaviError", [tmpl |-> "Error checking task status", cause |-> r.err])]
    ELSE IF att = retries - 1
        THEN IF r.kind = "raise"
             THEN [next |-> "end",
                   res |-> Raise("TaskNotFoundError", [tmpl |-> "not found after attempts"])]
             ELSE [next |-> "end", res |-> Return([ready |-> FALSE, status |-> r.val])]
    ELSE [next |-> "continue"]

\* poll_step that never escalates a not-found on the last attempt
poll_step_NoEscalation(r, att, retries, last) ==
    IF r.kind = "return" /\ is_ready(r.val)
        THEN [next |-> "end", res |-> Return([ready |-> TRUE, status |-> r.val])]
    ELSE IF r.kind = "raise" /\ r.err # "TaskNotFoundError"
        THEN [next |-> "end",
              res |-> Raise("AparaviError", [tmpl |-> "Error checking task status", cause |-> r.err])]
    ELSE IF att = retries - 1
        THEN [next |-> "end",
              res |-> Return([ready |-> FALSE,
                              status |-> IF r.kind = "return" THEN r.val ELSE last])]
    ELSE [next |-> "continue"]

\* poll_step that hands back the status of the attempt before when the
\* attempts run out
poll_step_StaleStatus(r, att, retries, last) ==
    IF r.kind = "return" /\ is_ready(r.val)
        THEN [next |-> "end", res |-> Return([ready |-> TRUE, status |-> r.val])]
    ELSE IF r.kind = "raise" /\ r.err # "TaskNotFoundError"
        THEN [next |-> "end",
              res |-> Raise("AparaviError", [tmpl |-> "Error checking task status", cause |-> r.err])]
    ELSE IF att = retries - 1
        THEN IF r.kind = "raise"
             THEN [next |-> "end",
                   res |-> Raise("TaskNotFoundError", [tmpl |-> "not found after attempts"])]
             ELSE [next |-> "end", res |-> Return([ready |-> FALSE, status |-> last])]
    ELSE [next |-> "continue"]

\* poll_step that retries after any error of the status check
poll_step_RetryErrors(r, att, retries, last) ==
    IF r.kind = "return" /\ is_ready(r.val)
        THEN [next |-> "end", res |-> Return([ready |-> TRUE, status |-> r.val])]
    ELSE IF att = retries - 1
        THEN IF r.kind = "raise"
             THEN [next |-> "end",
                   res |-> Raise("TaskNotFoundError", [tmpl |-> "not found after attempts"])]
             ELSE [next |-> "end", res |-> Return([ready |-> FALSE, status |-> r.val])]
    ELSE [next |-> "continue"]

\* poll_step that treats the last attempt like any other and leaves the
\* end to the exhausted loop
poll_step_NoLastAttempt(r, att, retries, last) ==
    IF r.kind = "return" /\ is_ready(r.val)
        THEN [next |-> "end", res |-> Return([ready |-> TRUE, status |-> r.val])]
    ELSE IF r.kind = "raise" /\ r.err # "TaskNotFoundError"
        THEN [next |-> "end",
              res |-> Raise("AparaviError", [tmpl |-> "Error checking task status", cause |-> r.err])]
    ELSE [next |-> "continue"]

\* `last` is last_status before the attempt; the code returns last_status
\* after line 190 has set it to the status of this attempt.
poll_step(r, att, retries, last) ==
    IF r.kind = "return" /\ is_ready(r.val)
        THEN [next |-> "end", res |-> Return([ready |-> TRUE, status |-> r.val])]
    ELSE IF r.kind = "raise" /\ r.err # "TaskNotFoundError"
        THEN [next |-> "end",
              res |-> Raise("AparaviError", [tmpl |-> "Error checking task status", cause |-> r.err])]
    ELSE IF att = retries - 1
        THEN IF r.kind = "raise"
             THEN [next |-> "end",
                   res |-> Raise("TaskNotFoundError", [tmpl |-> "not found after attempts"])]
             ELSE [next |-> "end", res |-> Return([ready |-> FALSE, status |-> r.val])]
    ELSE [next |-> "continue"]

\* a backoff that multiplies the delay
next_delay_Exponential(d) == d * BackoffStep

\* client.py 218: delay += 2
next_delay(d) == d + BackoffStep

\* client.py 186-220: one attempt whose timeout check passed
PollCheck ==
    /\ pc = "poll"
    /\ attempt < max_retries
    /\ ~timed_out(timeout, now - start_time)
    /\ \E resp \in StatusResponses :
        LET r == get_task_status(resp)
            step == poll_step(r, attempt, max_retries, last_status)
        IN  /\ result' = IF r.kind = "return" THEN r.val
                          ELSE IF r.err = "TaskNotFoundError" THEN NoStatus
                          ELSE result
            /\ last_status' = IF r.kind = "return" THEN r.val ELSE last_status
            /\ seen' = seen \cup {Kind(r)}
            /\ IF step.next = "end"
               THEN /\ trace' = Append(trace,
                        Req("GET", "/task", [token |-> poll_token, type |-> poll_type], Answer(r)))
                    /\ PollEnd(step.res)
                    /\ UNCHANGED <<now, delay, attempt>>
               ELSE /\ delay' = next_delay(delay)
                    /\ \E j \in 0..MaxJitter :
                        /\ Truthy(timeout) \/ j = 0
                        /\ now' = now + delay' + j
                    /\ trace' = trace \o
                        <<Req("GET", "/task", [token |-> poll_token, type |-> poll_type], Answer(r)),
                          Sleep(delay')>>
                    /\ attempt' = attempt + 1
                    /\ UNCHANGED <<pc, task, outcome>>
    /\ UNCHANGED <<client, op, args, start_time>>

\* client.py 222: the loop ran out (only when max_retries <= 0, since the
\* last attempt returns or raises inside the loop)
PollExhausted ==
    /\ pc = "poll"
    /\ attempt >= max_retries
    /\ PollEnd(Return([ready |-> FALSE, status |-> last_status]))
    /\ UNCHANGED <<client, op, args, now, start_time, delay, attempt, last_status,
                   result, seen, trace>>

----------------------------------------------------------------------------
(* execute_pipeline *)

CreateData ==
    {NullData, EmptyData}
    \cup {[shape |-> "map", token |-> t, type |-> y] :
            t \in Tokens \cup {"missing"}, y \in Types \cup {"missing"}}

CreateResponses ==
    {Http(200, Json("OK", d, ErrNull)) : d \in CreateData}
    \cup {Http(201, Json("Warning", d, ErrNull)) : d \in CreateData}
    \cup {Http(200, Json("Error", d, ErrMap(MsgBusy))) : d \in CreateData}
    \cup {Http(200, Json("Error", NullData, ErrMap(MsgBusy))),
          Http(200, Json("missing", NullData, ErrNull)), Http(200, NotJson)}
    \cup ErrorResponses
    \cup {NetFail}

\* client.py 249-252
Validate ==
    /\ pc = "validate"
    /\ \E resp \in ValidateResponses :
        LET r == validate_pipe(resp)
            mr == make_request(resp)
        IN
        /\ trace' = Append(trace,
              Req("POST", "/pipe/validate", NoQuery,
                  IF mr.kind = "raise" THEN mr.err ELSE mr.val.status)
              @@ [got |-> resp])
        /\ IF r.kind = "raise"
           THEN outcome' = r /\ pc' = "done"
           ELSE outcome' = outcome /\ pc' = "create"
    /\ UNCHANGED <<client, op, args, now, start_time, delay, attempt, last_status,
                   result, seen, task>>

\* client.py 258-260: the threads argument is rejected
threads_rejected(t) == Truthy(t) /\ ~(MinThreads <= t[1] /\ t[1] <= MaxThreads)

\* execute_pipeline that does not look for the type in the data
task_created_NoTypeCheck(resp) ==
    LET r == make_request(resp) IN
    IF r.kind = "raise" THEN r
    ELSE IF r.val.status = "missing" THEN MissingStatus
    ELSE LET rb == ResultBase(r.val) IN
        IF rb.status = "Error"
            THEN Raise("AparaviError", [tmpl |-> "Task execution failed", text |-> rb.error])
        ELSE IF \/ rb.data.shape # "map"
                \/ rb.data.token = "missing"
            THEN Raise("AparaviError", [tmpl |-> "Server response missing required token or type"])
        ELSE Return([token |-> rb.data.token, type |-> rb.data.type])

\* client.py 270-291: what execute_pipeline makes of the response to PUT /task
task_created(resp) ==
    LET r == make_request(resp) IN
    IF r.kind = "raise" THEN r
    ELSE IF r.val.status = "missing" THEN MissingStatus
    ELSE LET rb == ResultBase(r.val) IN
        IF rb.status = "Error"
            THEN Raise("AparaviError", [tmpl |-> "Task execution failed", text |-> rb.error])
        ELSE IF \/ rb.data.shape # "map"
                \/ rb.data.token = "missing"
                \/ rb.data.type = "missing"
            THEN Raise("AparaviError", [tmpl |-> "Server response missing required token or type"])
        ELSE Return([token |-> rb.data.token, type |-> rb.data.type])

\* client.py 254-291, and what follows the return of execute_pipeline in
\* create_and_wait_for_task
Create ==
    /\ pc = "create"
    /\ IF threads_rejected(threads_arg)
       THEN /\ outcome' = Raise("ValueError", [tmpl |-> "Threads must be between 1 and 16"])
            /\ pc' = "done"
            /\ UNCHANGED <<task, trace>>
       ELSE \E resp \in CreateResponses :
            LET r == task_created(resp)
                params == [name |-> name_arg,
                           threads |-> IF Truthy(threads_arg) THEN threads_arg ELSE None]
            IN  /\ trace' = Append(trace,
                      Req("PUT", "/task", params, IF r.kind = "raise" THEN r.err ELSE "ok")
                      @@ [got |-> resp])
                /\ IF r.kind = "raise"
                   THEN outcome' = r /\ pc' = "done" /\ UNCHANGED task
                   ELSE /\ task' = r.val
                        /\ IF op = "execute_pipeline"
                           THEN outcome' = r /\ pc' = "done"
                           ELSE outcome' = outcome /\ pc' = "warmup"
    /\ UNCHANGED <<client, op, args, now, start_time, delay, attempt, last_status, result, seen>>

----------------------------------------------------------------------------
(* send_payload_to_webhook *)

\* what the service may answer to an upload
WebhookData ==
    {NullData, EmptyData,
     ObjectsData(ObjectsMap(<<>>)),
     ObjectsData(ObjectsMap(<<Object(TextAbsent)>>)),
     ObjectsData(ObjectsMap(<<Object(TextList(<<TextAbc>>))>>))}

WebhookResponses ==
    {Http(200, Json(s, d, ErrNull)) : s \in {"OK", "Error", "missing"}, d \in WebhookData}
    \cup {Http(200, NotJson)}
    \cup ErrorResponses
    \cup {NetFail}

\* send_payload_to_webhook that returns its list without the response
send_payload_result_NoAppend(resp) ==
    IF resp.code = 0
        THEN Raise("AparaviError", [tmpl |-> "Error sending to webhook"])
    ELSE IF resp.code >= HttpErrorFloor
        THEN Raise("AparaviError", [tmpl |-> "Error sending to webhook", code |-> resp.code])
    ELSE IF ~resp.body.json
        THEN Raise("AparaviError", [tmpl |-> "Error sending to webhook"])
    ELSE Return(<<>>)

\* client.py 123-138.  raise_for_status() raises an HTTPError carrying the
\* response; `if e.response:` tests the truth value of that response, which
\* is response.ok and so is false for every status >= 400: the branch of
\* line 135 is not taken and the message is str(e), which names the status
\* code but not the body.
send_payload_result(resp) ==
    IF resp.code = 0
        THEN Raise("AparaviError", [tmpl |-> "Error sending to webhook"])
    ELSE IF resp.code >= HttpErrorFloor
        THEN Raise("AparaviError", [tmpl |-> "Error sending to webhook", code |-> resp.code])
    ELSE IF ~resp.body.json
        THEN Raise("AparaviError", [tmpl |-> "Error sending to webhook"])
    ELSE Return(<<resp.body>>)

\* send_payload_to_webhook that goes on without a matching file
send_payload_to_webhook_NoGlobCheck(matched, resp) == send_payload_result(resp)

\* client.py 68-138: the whole call, for the number of files the pattern
\* matched and the response to the one request it makes, if it makes one
send_payload_to_webhook(matched, resp) ==
    IF matched = 0 THEN Raise("ValueError", [tmpl |-> "No files matched pattern"])
    ELSE send_payload_result(resp)

\* client.py 78-121: the body of the request; several files make one
\* multipart body with one part each, one file is sent raw
upload_body(matched) ==
    [kind |-> IF matched > 1 THEN "multipart" ELSE "raw", parts |-> matched]

\* send_payload_to_webhook called on its own
SendPayloadCall ==
    /\ op = "send_payload_to_webhook"
    /\ pc = "start"
    /\ \E resp \in WebhookResponses :
        LET r == send_payload_to_webhook(args.matched, resp) IN
        /\ trace' = IF args.matched = 0 THEN trace
                     ELSE Append(trace,
                            Req("PUT", "/webhook",
                                [token |-> args.token, type |-> args.task_type,
                                 body |-> upload_body(args.matched)],
                                IF r.kind = "raise" THEN r.err ELSE "ok")
                            @@ [got |-> resp])
        /\ outcome' = IF r.kind = "raise" THEN r ELSE Return([responses |-> r.val])
    /\ pc' = "done"
    /\ UNCHANGED <<client, op, args, now, start_time, delay, attempt, last_status,
                   result, seen, task>>

----------------------------------------------------------------------------
(* The facades *)

\* llama_parse.py 123-153 and 207-222: what the facade returns for the
\* responses of the upload
llama_response(responses) ==
    IF Len(responses) > 0 /\ responses[1].status = "OK"
    THEN Return([text |-> JsonDumps(responses[1].data), status |-> "completed"])
    ELSE Return([text |-> Plain(<<>>), status |-> "failed"])

\* the facade without the check that the document exists
llama_preconditions_NoFileCheck(config_exists, file_exists) ==
    IF ~config_exists
        THEN Raise("FileNotFoundError", [tmpl |-> "Pipeline configuration not found at"])
    ELSE NoResult

\* llama_parse.py 81-106 and 165-190: the pipeline file (a resource of the
\* package, well-formed when it is there) and the document must exist;
\* what the facade raises before it turns to the client, if anything
llama_preconditions(config_exists, file_exists) ==
    IF ~config_exists
        THEN Raise("FileNotFoundError", [tmpl |-> "Pipeline configuration not found at"])
    ELSE IF ~file_exists
        THEN Raise("FileNotFoundError", [tmpl |-> "File not found"])
    ELSE NoResult

LlamaStart ==
    /\ pc = "start"
    /\ op \in LlamaOps
    /\ outcome' = llama_preconditions(args.config_exists, args.file_exists)
    /\ pc' = IF outcome'.kind = "raise" THEN "done" ELSE "validate"
    /\ UNCHANGED <<client, op, args, now, start_time, delay, attempt, last_status,
                   result, seen, task, trace>>

\* the upload made with one request for every file the pattern matched
LlamaUpload_PerFile ==
    /\ pc = "upload"
    /\ op \in LlamaOps
    /\ \E n \in 0..MaxFiles :
        IF n = 0
        THEN /\ outcome' = Raise("ValueError", [tmpl |-> "No files matched pattern"])
             /\ UNCHANGED trace
        ELSE \E resp \in WebhookResponses :
            LET r == send_payload_result(resp)
                request == Req("PUT", "/webhook",
                               [token |-> task.token, type |-> task.type, body |-> "raw"],
                               IF r.kind = "raise" THEN r.err ELSE "ok")
                           @@ [got |-> resp]
            IN
            /\ trace' = trace \o [k \in 1..n |-> request]
            /\ outcome' = IF r.kind = "raise" THEN r ELSE llama_response(r.val)
    /\ pc' = "done"
    /\ UNCHANGED <<client, op, args, now, start_time, delay, attempt, last_status,
                   result, seen, task>>

\* llama_parse.py 115-153 and 199-222: the upload (client.py 68-138) and the
\* result of the facade
LlamaUpload ==
    /\ pc = "upload"
    /\ op \in LlamaOps
    /\ \E n \in 0..MaxFiles :
        IF n = 0
        THEN /\ outcome' = Raise("ValueError", [tmpl |-> "No files matched pattern"])
             /\ UNCHANGED trace
        ELSE \E resp \in WebhookResponses :
            LET r == send_payload_result(resp) IN
            /\ trace' = Append(trace,
                  Req("PUT", "/webhook",
                      [token |-> task.token, type |-> task.type,
                       body |-> IF n > 1 THEN "multipart" ELSE "raw"],
                      IF r.kind = "raise" THEN r.err ELSE "ok")
                  @@ [got |-> resp])
            /\ outcome' = IF r.kind = "raise" THEN r ELSE llama_response(r.val)
    /\ pc' = "done"
    /\ UNCHANGED <<client, op, args, now, start_time, delay, attempt, last_status,
                   result, seen, task>>

\* the keyword arguments of the call at document_processor.py 62-69 and the
\* parameters of create_and_wait_for_task (client.py 293-301)
ProcessDocumentKwargs == {"pipeline", "name", "type", "max_retries", "initial_delay", "timeout"}
CreateAndWaitParams == {"pipeline", "name", "threads", "max_retries", "initial_delay", "timeout"}

\* document_processor.py 55-118.  The call of line 62 passes a keyword
\* `type` that create_and_wait_for_task does not take: Python raises
\* TypeError before the callee runs, task_token stays unbound, and the
\* handler of lines 111-118 re-raises without a teardown.
process_document(file_exists) ==
    IF ~file_exists THEN Raise("FileNotFoundError", [tmpl |-> "File not found"])
    ELSE IF ~(ProcessDocumentKwargs \subseteq CreateAndWaitParams)
        THEN Raise("TypeError", [tmpl |-> "unexpected keyword argument"])
    ELSE Raise("ValueError", [tmpl |-> "too many values to unpack"])

ProcessDocument ==
    /\ pc = "start"
    /\ op = "process_document"
    /\ outcome' = process_document(args.file_exists)
    /\ pc' = "done"
    /\ UNCHANGED <<client, op, args, now, start_time, delay, attempt, last_status,
                   result, seen, task, trace>>

----------------------------------------------------------------------------
(* tools/helper.py *)

\* None where a string is expected
NoText == [none |-> TRUE]

\* the body of process_response that looks at the last entry of objects
process_response_body_LastObject(response) ==
    IF response.status # "OK" THEN Return(NoText)
    ELSE IF response.data.shape = "null"
        THEN Raise("AttributeError", [tmpl |-> "'NoneType' object has no attribute 'get'"])
    ELSE IF response.data.shape # "map" THEN Return(NoText)
    ELSE LET objects == response.data.objects IN
        IF objects.shape # "map" \/ objects.items = <<>> THEN Return(NoText)
        ELSE LET first_object == objects.items[Len(objects.items)] IN
            IF first_object.kind # "map"
                THEN Raise("AttributeError", [tmpl |-> "'str' object has no attribute 'get'"])
            ELSE LET text_list == first_object.text IN
                IF text_list.items = <<>> THEN Return(NoText)
                ELSE IF text_list.shape = "str" /\ text_list.items[1] = TextBlank
                    THEN Return(NoText)
                ELSE Return(text_list.items[1])

\* helper.py 28-53, the body of the try block.  status: .get gives None for
\* a missing key; data: a missing key reads as {}, null has no .get;
\* objects: missing, null and {} are all falsy; an entry that is not a
\* mapping has no .get; text: missing reads as [], and None, [] and "" are
\* falsy; a list yields its first element, a bare string itself.
process_response_body(response) ==
    IF response.status # "OK" THEN Return(NoText)
    ELSE IF response.data.shape = "null"
        THEN Raise("AttributeError", [tmpl |-> "'NoneType' object has no attribute 'get'"])
    ELSE IF response.data.shape # "map" THEN Return(NoText)
    ELSE LET objects == response.data.objects IN
        IF objects.shape # "map" \/ objects.items = <<>> THEN Return(NoText)
        ELSE LET first_object == objects.items[1] IN
            IF first_object.kind # "map"
                THEN Raise("AttributeError", [tmpl |-> "'str' object has no attribute 'get'"])
            ELSE LET text_list == first_object.text IN
                IF text_list.items = <<>> THEN Return(NoText)
                ELSE IF text_list.shape = "str" /\ text_list.items[1] = TextBlank
                    THEN Return(NoText)
                ELSE Return(text_list.items[1])

\* process_response without its handler
process_response_NoHandler(response) == process_response_body(response)

\* helper.py 27-57: any exception of the body is caught and None returned
process_response(response) ==
    LET r == process_response_body(response) IN
    IF r.kind = "raise" THEN Return(NoText) ELSE r

ProcessResponse ==
    /\ op = "process_response"
    /\ pc = "start"
    /\ outcome' = process_response(args.response)
    /\ pc' = "done"
    /\ UNCHANGED <<client, op, args, now, start_time, delay, attempt, last_status,
                   result, seen, task, trace>>

\* document_processor.py 95-102: json.loads of the text; a decoded mapping
\* with a content key is replaced by that content, anything else (and every
\* string that is not JSON) is left as it is
decoded_content(text_content) ==
    IF "dumps" \in DOMAIN text_content /\ "content" \in DOMAIN text_content.dumps
    THEN text_content.dumps.content
    ELSE text_content

\* document_processor.py 85-118, the extraction step of process_document as
\* a function of the upload result.  status and data are read with .get
\* (a missing data reads as {}, null has no .get); objects missing, null
\* and {} are falsy; an entry that is not a mapping has no .get; text
\* missing, None, [] and "" are falsy; first_object['text'][0] is the first
\* element of a list and the first character of a bare string.  The handler
\* of lines 111-118 re-raises what the body raised.
process_document_extraction(result_) ==
    LET no_text == Raise("AparaviError", [tmpl |-> "No text content found in processing result"]) IN
    IF result_.status # "OK" THEN no_text
    ELSE IF result_.data.shape = "null"
        THEN Raise("AttributeError", [tmpl |-> "'NoneType' object has no attribute 'get'"])
    ELSE IF result_.data.shape # "map" THEN no_text
    ELSE LET objects == result_.data.objects IN
        IF objects.shape # "map" \/ objects.items = <<>> THEN no_text
        ELSE LET first_object == objects.items[1] IN
            IF first_object.kind # "map"
                THEN Raise("AttributeError", [tmpl |-> "'str' object has no attribute 'get'"])
            ELSE LET text == first_object.text IN
                IF text.items = <<>> THEN no_text
                ELSE IF text.shape = "str"
                    THEN IF text.items[1] = TextBlank THEN no_text
                         ELSE Return(Plain(<<text.items[1].plain[1]>>))
                ELSE Return(decoded_content(text.items[1]))

\* the extraction step applied to an upload result
ProcessDocumentExtraction ==
    /\ op = "process_document_extraction"
    /\ pc = "start"
    /\ outcome' = process_document_extraction(args.response)
    /\ pc' = "done"
    /\ UNCHANGED <<client, op, args, now, start_time, delay, attempt, last_status,
                   result, seen, task, trace>>

\* llama_parse.py 64-66: config.setdefault("config", {}), then
\* .setdefault("default", {}), then the key is written
\* the key written into a config made anew, whatever the component held
with_api_key_Fresh(component, key) ==
    [component EXCEPT !.config = ConfigMap(DefaultMap(key))]

with_api_key(component, key) ==
    LET config == IF component.config.shape = "absent"
                  THEN ConfigMap(DefaultAbsent) ELSE component.config
        default_config == IF config.default.shape = "absent"
                          THEN DefaultMap(key)
                          ELSE [config.default EXCEPT !.api_key = key]
    IN  [component EXCEPT !.config = [config EXCEPT !.default = default_config]]

\* insert_llama_key without the break: every matching component gets the key
insert_llama_key_NoBreak(pipeline_data, key) ==
    [components |->
        [pipeline_data.components EXCEPT !.items =
            [i \in DOMAIN @ |->
                IF @[i].provider = "llamaparse" THEN with_api_key(@[i], key) ELSE @[i]]]]

\* llama_parse.py 61-70: LLamaParse.insert_llama_key; a pipeline without a
\* components list is iterated as [] and comes back as it went in
insert_llama_key(pipeline_data, key) ==
    LET items == pipeline_data.components.items
        matching == {i \in DOMAIN items : items[i].provider = "llamaparse"}
    IN  IF matching = {} THEN pipeline_data
        ELSE LET first == CHOOSE i \in matching : \A j \in matching : i <= j IN
             [components |->
                [pipeline_data.components EXCEPT !.items[first] = with_api_key(@, key)]]

GetResourcePath ==
    /\ op = "get_resource_path"
    /\ pc = "start"
    /\ outcome' = Return(get_resource_path(args.resource_path, args.cwd))
    /\ pc' = "done"
    /\ UNCHANGED <<client, op, args, now, start_time, delay, attempt, last_status,
                   result, seen, task, trace>>

InsertLlamaKey ==
    /\ op = "insert_llama_key"
    /\ pc = "start"
    /\ outcome' = Return(insert_llama_key(args.pipeline_data, LlamaKey))
    /\ pc' = "done"
    /\ UNCHANGED <<client, op, args, now, start_time, delay, attempt, last_status,
                   result, seen, task, trace>>

----------------------------------------------------------------------------
(* end_task, and the test that runs the whole sequence *)

EndResponses ==
    {Http(200, Json(s, NullData, ErrNull)) : s \in {"OK", "Error", "missing"}}
    \cup {Http(200, Json("Error", NullData, ErrStr(m))) : m \in {MsgTaskNotFound, MsgBusy}}
    \cup {Http(200, b) : b \in ErrorBodies}
    \cup ErrorResponses
    \cup {NetFail}

\* end_task that takes a not-found for done
end_task_Swallow(resp) ==
    LET r == make_request(resp) IN
    IF r.kind = "raise" THEN r
    ELSE IF r.val.status = "missing" THEN MissingStatus
    ELSE LET rb == ResultBase(r.val) IN
        IF rb.status = "Error" /\ ~Contains(Lower(StrOfError(rb.error)), NOT_FOUND)
        THEN Raise("AparaviError", [tmpl |-> "Failed to end task", text |-> rb.error])
        ELSE Return(rb)

\* AparaviClient.end_task, from the HTTP response on
end_task(resp) ==
    LET r == make_request(resp) IN
    IF r.kind = "raise" THEN r
    ELSE IF r.val.status = "missing" THEN MissingStatus
    ELSE LET rb == ResultBase(r.val) IN
        IF rb.status = "Error"
        THEN IF Contains(Lower(StrOfError(rb.error)), NOT_FOUND)
             THEN Raise("TaskNotFoundError", [tmpl |-> "Task not found", text |-> rb.error])
             ELSE Raise("AparaviError", [tmpl |-> "Failed to end task", text |-> rb.error])
        ELSE Return(rb)

\* test_aparavi_connection.py 77-95: the upload of the one temporary file;
\* its responses are printed and the sequence goes on to end the task
TestUpload ==
    /\ pc = "upload"
    /\ op \in ScriptOps
    /\ \E resp \in WebhookResponses :
        LET r == send_payload_result(resp) IN
        /\ trace' = Append(trace,
              Req("PUT", "/webhook",
                  [token |-> task.token, type |-> task.type, body |-> "raw"],
                  IF r.kind = "raise" THEN r.err ELSE "ok"))
        /\ IF r.kind = "raise"
           THEN outcome' = r /\ pc' = "done"
           ELSE outcome' = outcome /\ pc' = "end"
    /\ UNCHANGED <<client, op, args, now, start_time, delay, attempt, last_status,
                   result, seen, task>>

\* client.py 503-526; the test (line 98) drops the value end_task returns
EndTask ==
    /\ pc = "end"
    /\ \E resp \in EndResponses :
        LET r == end_task(resp) IN
        /\ trace' = Append(trace,
              Req("DELETE", "/task", [token |-> end_token, type |-> end_type],
                  IF r.kind = "raise" THEN r.err ELSE "ok")
              @@ [got |-> resp])
        /\ outcome' = IF op \in ScriptOps /\ r.kind = "return" THEN Return(NoStatus) ELSE r
    /\ pc' = "done"
    /\ UNCHANGED <<client, op, args, now, start_time, delay, attempt, last_status,
                   result, seen, task>>

\* get_task_status called on its own
GetTaskStatusCall ==
    /\ op = "get_task_status"
    /\ pc = "start"
    /\ \E resp \in StatusResponses :
        LET r == get_task_status(resp) IN
        /\ trace' = Append(trace,
              Req("GET", "/task", [token |-> args.token, type |-> args.type], Answer(r))
              @@ [got |-> resp])
        /\ outcome' = r
    /\ pc' = "done"
    /\ UNCHANGED <<client, op, args, now, start_time, delay, attempt, last_status,
                   result, seen, task>>

----------------------------------------------------------------------------
(* Two invocations of the LLamaParse facades interleaved on the one client *)
(* of the server (mcp-server.py 34-37, 60-79).  Every variable but the     *)
(* client holds one value per invocation; `seen` lists the tasks the       *)
(* service has created, in order.                                          *)

Calls == {1, 2}

\* the service gives every task it creates a token of its own
PairTokens == <<"tok1", "tok2">>

PairValidateResponses ==
    {Http(200, Json("OK", NullData, ErrNull)), Http(401, NotJson)}

PairCreateResponses(token) ==
    {Http(200, Json("OK", [shape |-> "map", token |-> token, type |-> y], ErrNull)) : y \in Types}
    \cup {Http(503, NotJson)}

PairStatusResponses ==
    {Http(200, Json("OK", [shape |-> "map", serviceUp |-> u, notes |-> 0], ErrNull)) :
        u \in {"true", "false"}}
    \cup {Http(500, Json("Error", NullData, ErrMap(MsgTaskNotFound)))}

PairWebhookResponses ==
    {Http(200, Json("OK", ObjectsData(ObjectsMap(<<Object(TextList(<<TextAbc>>))>>)), ErrNull)),
     Http(500, NotJson)}

InitPair ==
    /\ client = SharedClient
    /\ op = [i \in Calls |->
              IF i = 1 THEN "llama_parse_document_parser" ELSE "ocr_system_diagram_parser"]
    /\ args = [i \in Calls |->
                [file_path |-> "doc", config_exists |-> TRUE, file_exists |-> TRUE]]
    /\ pc = [i \in Calls |-> "validate"]
    /\ now = 0
    /\ start_time = 0
    /\ delay = [i \in Calls |-> 0]
    /\ attempt = [i \in Calls |-> 0]
    /\ last_status = [i \in Calls |-> NoStatus]
    /\ result = NoStatus
    /\ seen = <<>>
    /\ task = [i \in Calls |-> NoStatus]
    /\ trace = [i \in Calls |-> <<>>]
    /\ outcome = [i \in Calls |-> NoResult]

\* a client that keeps the task it created last and works on that one
call_task_Latest(i) == seen[Len(seen)]

\* llama_parse.py 108-119 and 192-203: task_token and task_type are locals
\* of the invocation
call_task(i) == task[i]

\* client.py 249-252, called by invocation i
PairValidate(i) ==
    /\ pc[i] = "validate"
    /\ \E resp \in PairValidateResponses :
        LET r == validate_pipe(resp) IN
        /\ trace' = [trace EXCEPT ![i] =
              Append(@, Req("POST", "/pipe/validate", NoQuery,
                            IF r.kind = "raise" THEN r.err ELSE "ok"))]
        /\ IF r.kind = "raise"
           THEN /\ outcome' = [outcome EXCEPT ![i] = r]
                /\ pc' = [pc EXCEPT ![i] = "done"]
           ELSE /\ outcome' = outcome
                /\ pc' = [pc EXCEPT ![i] = "create"]
    /\ UNCHANGED <<client, op, args, now, start_time, delay, attempt, last_status,
                   result, seen, task>>

\* client.py 254-291, called by invocation i with threads=None
PairCreate(i) ==
    /\ pc[i] = "create"
    /\ \E resp \in PairCreateResponses(PairTokens[Len(seen) + 1]) :
        LET r == task_created(resp) IN
        /\ trace' = [trace EXCEPT ![i] =
              Append(@, Req("PUT", "/task", [name |-> Some("Process doc"), threads |-> None],
                            IF r.kind = "raise" THEN r.err ELSE "ok"))]
        /\ IF r.kind = "raise"
           THEN /\ outcome' = [outcome EXCEPT ![i] = r]
                /\ pc' = [pc EXCEPT ![i] = "done"]
                /\ UNCHANGED <<task, seen>>
           ELSE /\ task' = [task EXCEPT ![i] = r.val]
                /\ seen' = Append(seen, r.val)
                /\ outcome' = outcome
                /\ pc' = [pc EXCEPT ![i] = "warmup"]
    /\ UNCHANGED <<client, op, args, now, start_time, delay, attempt, last_status, result>>

\* client.py 173-179, with the defaults of create_and_wait_for_task
PairWarmUp(i) ==
    /\ pc[i] = "warmup"
    /\ delay' = [delay EXCEPT ![i] = DefaultInitialDelay]
    /\ last_status' = [last_status EXCEPT ![i] = NoStatus]
    /\ attempt' = [attempt EXCEPT ![i] = 0]
    /\ trace' = [trace EXCEPT ![i] = Append(@, Sleep(DefaultInitialDelay))]
    /\ pc' = [pc EXCEPT ![i] = "poll"]
    /\ UNCHANGED <<client, op, args, now, start_time, result, seen, task, outcome>>

\* client.py 186-220 and 335-339: one attempt of the poll of invocation i
\* (no timeout is configured)
PairCheck(i) ==
    /\ pc[i] = "poll"
    /\ attempt[i] < DefaultMaxRetries
    /\ \E resp \in PairStatusResponses :
        LET r == get_task_status(resp)
            step == poll_step(r, attempt[i], DefaultMaxRetries, last_status[i])
            request == Req("GET", "/task",
                           [token |-> call_task(i).token, type |-> call_task(i).type],
                           Answer(r))
        IN  /\ last_status' = [last_status EXCEPT ![i] = IF r.kind = "return" THEN r.val ELSE @]
            /\ IF step.next = "end"
               THEN LET cw == create_and_wait_result(call_task(i), step.res) IN
                    /\ trace' = [trace EXCEPT ![i] = Append(@, request)]
                    /\ IF cw.kind = "raise"
                       THEN /\ outcome' = [outcome EXCEPT ![i] = cw]
                            /\ pc' = [pc EXCEPT ![i] = "done"]
                       ELSE /\ outcome' = outcome
                            /\ pc' = [pc EXCEPT ![i] = "upload"]
                    /\ UNCHANGED <<delay, attempt>>
               ELSE /\ delay' = [delay EXCEPT ![i] = next_delay(@)]
                    /\ trace' = [trace EXCEPT ![i] = @ \o <<request, Sleep(delay'[i])>>]
                    /\ attempt' = [attempt EXCEPT ![i] = @ + 1]
                    /\ UNCHANGED <<pc, outcome>>
    /\ UNCHANGED <<client, op, args, now, start_time, result, seen, task>>

\* llama_parse.py 115-153 and 199-222: the upload of the one document of
\* invocation i
PairUpload(i) ==
    /\ pc[i] = "upload"
    /\ \E resp \in PairWebhookResponses :
        LET r == send_payload_to_webhook(1, resp) IN
        /\ trace' = [trace EXCEPT ![i] =
              Append(@, Req("PUT", "/webhook",
                            [token |-> call_task(i).token, type |-> call_task(i).type,
                             body |-> upload_body(1)],
                            IF r.kind = "raise" THEN r.err ELSE "ok"))]
        /\ outcome' = [outcome EXCEPT ![i] = IF r.kind = "raise" THEN r ELSE llama_response(r.val)]
    /\ pc' = [pc EXCEPT ![i] = "done"]
    /\ UNCHANGED <<client, op, args, now, start_time, delay, attempt, last_status,
                   result, seen, task>>

NextPair ==
    \E i \in Calls :
        \/ PairValidate(i)
        \/ PairCreate(i)
        \/ PairWarmUp(i)
        \/ PairCheck(i)
        \/ PairUpload(i)

SpecPair == InitPair /\ [][NextPair]_vars

----------------------------------------------------------------------------
(* The polling operations by themselves, each step of which is taken in    *)
(* finite time: every request is made with the timeout of the client       *)
(* (client.py 368-374) and every sleep is finite.                          *)

InitPoll ==
    /\ Init
    /\ op \in PollArgOps

NextPoll ==
    \/ Validate
    \/ Create
    \/ WarmUp
    \/ PollTimeout
    \/ PollCheck
    \/ PollExhausted

SpecPoll == InitPoll /\ [][NextPoll]_vars /\ WF_vars(NextPoll)

----------------------------------------------------------------------------

Next ==
    \/ MakeRequestCall
    \/ Validate
    \/ Create
    \/ LlamaStart
    \/ LlamaUpload
    \/ ProcessDocument
    \/ ProcessResponse
    \/ ProcessDocumentExtraction
    \/ SendPayloadCall
    \/ InsertLlamaKey
    \/ GetResourcePath
    \/ GetTaskStatusCall
    \/ TestUpload
    \/ EndTask
    \/ WarmUp
    \/ PollTimeout
    \/ PollCheck
    \/ PollExhausted

Spec == Init /\ [][Next]_vars

----------------------------------------------------------------------------
(* Properties *)

Checks == Count(trace, "GET", "/task")
LastEvent == trace[Len(trace)]
ExceptionKinds == AparaviKinds \cup {"ValueError", "KeyError", "TypeError", "FileNotFoundError"}
Raised(e) == outcome.kind = "raise" /\ outcome.err = e
NestedOps == {"create_and_wait_for_task"} \cup LlamaOps

\* C1: in wait_for_task_ready, when the status check first reports
\* serviceUp = true on attempt k, the call returns (true, status_k), status_k
\* the status the k-th check returned; exactly k checks were made, every
\* earlier one answered unready or not-found, and all of them came after
\* the warm-up sleep of initial_delay.
C1_ReadyOnAttemptK ==
    (/\ op = "wait_for_task_ready"
     /\ Len(trace) > 0
     /\ IsReq(LastEvent, "GET", "/task")
     /\ LastEvent.ans = "up")
    => /\ pc = "done"
       /\ outcome = Return([ready |-> TRUE, status |-> result])
       /\ is_ready(result)
       /\ Checks = attempt + 1
       /\ Checks <= max_retries
       /\ trace[1] = Sleep(initial_delay)
       /\ \A i \in 1..(Len(trace) - 1) :
            IsReq(trace[i], "GET", "/task") => i > 1 /\ trace[i].ans = "notup"
       /\ seen \subseteq {"up", "unready", "TaskNotFoundError"}

\* C1 witness: ready on the third check, after an unready status and a
\* not-found, with a timeout configured.
C1_Witness ==
    /\ op = "wait_for_task_ready"
    /\ pc = "done"
    /\ outcome.kind = "return"
    /\ outcome.val.ready
    /\ Checks = 3
    /\ seen = {"up", "unready", "TaskNotFoundError"}
    /\ Truthy(timeout)

\* C2 as stated: in wait_for_task_ready, when every status check answers
\* with a valid status that is never up, the call returns (false, lastStatus)
\* without raising after exactly max_retries checks.
C2_Original ==
    (op = "wait_for_task_ready" /\ pc = "done" /\ seen = {"unready"})
    => /\ outcome = Return([ready |-> FALSE, status |-> result])
       /\ Checks = max_retries

\* C2 amended: in wait_for_task_ready, when every status check answers
\* with a valid status that is never up, either the call returns
\* (false, lastStatus) without raising after exactly max_retries checks,
\* lastStatus being the status of the last check, or the elapsed time
\* exceeded a configured timeout at the head of an attempt and the call
\* raised TaskTimeoutError after fewer than max_retries checks.
C2_NeverReady ==
    (op = "wait_for_task_ready" /\ pc = "done" /\ seen \subseteq {"unready"})
    => \/ /\ outcome = Return([ready |-> FALSE, status |-> result])
          /\ last_status = result
          /\ Checks = max_retries
       \/ /\ Raised("TaskTimeoutError")
          /\ Truthy(timeout)
          /\ now - start_time > timeout[1]
          /\ Checks < max_retries

\* C2 witness: three unready statuses, a timeout configured and not exceeded.
C2_Witness ==
    /\ op = "wait_for_task_ready"
    /\ pc = "done"
    /\ seen = {"unready"}
    /\ outcome.kind = "return"
    /\ ~outcome.val.ready
    /\ Checks = 3
    /\ Truthy(timeout)

\* C3: in wait_for_task_ready, a status check answered not-found on an
\* attempt other than the last raises nothing and the poll goes on with the
\* next attempt; answered not-found on the last attempt it raises
\* TaskNotFoundError; and the poll raises TaskNotFoundError on no attempt but
\* the last.
C3_NotFoundEscalation ==
    [][ /\ (/\ pc = "poll"
            /\ Len(trace') > Len(trace)
            /\ trace'[Len(trace) + 1].ans = "notup"
            /\ result' = NoStatus)
           => IF attempt = max_retries - 1
              THEN pc' = "done" /\ outcome'.kind = "raise"
                   /\ outcome'.err = "TaskNotFoundError"
              ELSE pc' = "poll" /\ outcome' = NoResult /\ attempt' = attempt + 1
        /\ (pc = "poll" /\ outcome'.kind = "raise" /\ outcome'.err = "TaskNotFoundError")
           => attempt = max_retries - 1
      ]_vars

\* C3 witness: not-found on each of three attempts, raised by the third.
C3_Witness ==
    /\ op = "wait_for_task_ready"
    /\ pc = "done"
    /\ Raised("TaskNotFoundError")
    /\ seen = {"TaskNotFoundError"}
    /\ Checks = 3

PollReturnedNotReady ==
    /\ op \in NestedOps
    /\ task # NoStatus
    /\ pc \in {"upload", "done"}
    /\ \/ /\ max_retries > 0
          /\ Checks = max_retries
          /\ IsReq(LastEvent, "GET", "/task")
          /\ LastEvent.ans = "notup"
          /\ result # NoStatus
       \/ /\ max_retries = 0
          /\ LastEvent.ev = "sleep"

\* C5: create_and_wait_for_task raises TaskTimeoutError whenever the poll
\* returns not-ready, and every PUT /webhook of a facade invocation has
\* before it a status check for the same token that found the service up.
C5_NoUploadToUnready ==
    /\ PollReturnedNotReady => pc = "done" /\ Raised("TaskTimeoutError")
    /\ \A i \in 1..Len(trace) :
        (op \in FacadeOps /\ IsReq(trace[i], "PUT", "/webhook")) =>
            \E j \in 1..(i - 1) :
                /\ IsReq(trace[j], "GET", "/task")
                /\ trace[j].q.token = trace[i].q.token
                /\ trace[j].ans = "up"

\* C5 witness: a facade has uploaded after a poll that needed two checks.
C5_Witness ==
    /\ op \in LlamaOps
    /\ pc = "done"
    /\ Count(trace, "PUT", "/webhook") = 1
    /\ Checks = 2

\* C6 as stated: when a facade fails after the task was created, DELETE
\* /task with the token and type of the task has been requested by the time
\* the error reaches the caller.
C6_TeardownOnFailure ==
    (op \in FacadeOps /\ pc = "done" /\ outcome.kind = "raise" /\ task # NoStatus)
    => \E i \in 1..Len(trace) :
        /\ IsReq(trace[i], "DELETE", "/task")
        /\ trace[i].q.token = task.token
        /\ trace[i].q.type = task.type

C9_ThreadsLocalFailure ==
    (/\ op = "execute_pipeline"
     /\ args.threads # None
     /\ ~(MinThreads <= args.threads[1] /\ args.threads[1] <= MaxThreads))
    => /\ trace = <<>>
       /\ pc = "done" => Raised("ValueError")

\* C10: _make_request raises AuthenticationError for 401 and
\* ValidationError for 422; for any other status >= 400 that it does not
\* classify as task-not-found it raises AparaviError with the status code
\* and the body text; for a status below 400 it returns the parsed body.
C10_StatusMapping ==
    (op = "make_request" /\ pc = "done") =>
        LET c == args.resp.code
            body == args.resp.body
        IN  /\ c = 401 => Raised("AuthenticationError")
            /\ c = 422 => Raised("ValidationError")
            /\ (c >= 400 /\ c \notin {401, 422} /\ ~Raised("TaskNotFoundError"))
               => outcome = Raise("AparaviError",
                                  [tmpl |-> "API error", code |-> c, text |-> body])
            /\ (c > 0 /\ c < 400 /\ body.json) => outcome = Return(body)

\* C10 witness: a 404 has become the generic error.
C10_Witness ==
    /\ op = "make_request"
    /\ pc = "done"
    /\ args.resp.code = 404
    /\ Raised("AparaviError")

\* the substring the specification names for the not-found classification
TASK_NOT_FOUND == <<"t","a","s","k"," ","n","o","t"," ","f","o","u","n","d">>

\* the body is a structured {error: {message}} whose message holds
\* "task not found", whatever the case
StructuredTaskNotFound(body) ==
    /\ body.json
    /\ body.error.shape = "map"
    /\ Contains(Lower(body.error.msg), TASK_NOT_FOUND)

\* C11 as stated: for every status from 500 to 599, _make_request raises
\* TaskNotFoundError exactly when the body is a structured {error:{message}}
\* whose message contains "task not found" case-insensitively, and the
\* generic server error for every other 5xx response.
C11_ServerErrorClassification ==
    (op = "make_request" /\ pc = "done" /\ args.resp.code \in 500..599)
    => IF StructuredTaskNotFound(args.resp.body)
       THEN Raised("TaskNotFoundError")
       ELSE outcome = ApiError(args.resp)

\* the kinds of the errors _make_request raises for HTTP error statuses
HttpStatusErrorKinds ==
    {make_request(r).err : r \in {x \in RequestResponses : x.code >= HttpErrorFloor}}

\* C12 as stated: a network-level failure in _make_request does not escape
\* as a raw network exception; it is raised as an error of the client's own
\* hierarchy whose kind is none of the kinds raised for HTTP error statuses.
C12_TransportErrorDistinct ==
    (op = "make_request" /\ pc = "done" /\ args.resp = NetFail)
    => /\ outcome.kind = "raise"
       /\ IsAparaviError(outcome.err)
       /\ outcome.err \notin HttpStatusErrorKinds

\* the operations that create the task they work on
CreatingOps == NestedOps \cup ScriptOps

ReceivedEnvelope(resp) ==
    /\ resp.code > 0
    /\ resp.code < HttpErrorFloor
    /\ resp.body.json
    /\ resp.body.status # "missing"

\* the data of the envelope holds both a token and a type
HasTokenAndType(body) ==
    /\ body.data.shape = "map"
    /\ body.data.token # "missing"
    /\ body.data.type # "missing"

\* C14: execute_pipeline returns a (token, type) pair only when the
\* envelope answering PUT /task has a status other than "Error" and data
\* with both a token and a type, and then returns those two; when the
\* envelope lacks either (or has no data) the call raises the generic
\* AparaviError and returns nothing.
C14_TokenAndTypeRequired ==
    (op = "execute_pipeline" /\ pc = "done" /\ Count(trace, "PUT", "/task") = 1)
    => LET resp == LastEvent.got IN
       /\ outcome.kind = "return"
          => /\ ReceivedEnvelope(resp)
             /\ resp.body.status # "Error"
             /\ HasTokenAndType(resp.body)
             /\ outcome.val = [token |-> resp.body.data.token,
                               type |-> resp.body.data.type]
       /\ (ReceivedEnvelope(resp) /\ ~HasTokenAndType(resp.body))
          => Raised("AparaviError")
       /\ (ReceivedEnvelope(resp) /\ resp.body.status = "Error")
          => Raised("AparaviError")

\* C14 witness: the server answered OK with a token and no type, and
\* execute_pipeline raised the generic error.
C14_Witness ==
    /\ op = "execute_pipeline"
    /\ pc = "done"
    /\ Count(trace, "PUT", "/task") = 1
    /\ LastEvent.got.body.json
    /\ LastEvent.got.body.status = "OK"
    /\ LastEvent.got.body.data.shape = "map"
    /\ LastEvent.got.body.data.token = "tok1"
    /\ LastEvent.got.body.data.type = "missing"
    /\ Raised("AparaviError")

\* the poll of this call found the service up on its second status check
ReadyOnSecondCheck ==
    /\ Checks = 2
    /\ \E i \in 1..Len(trace) : IsReq(trace[i], "GET", "/task") /\ trace[i].ans = "up"

\* the upload was answered OK with exactly one object whose text list is <<t>>
UploadAnsweredText(t) ==
    /\ IsReq(LastEvent, "PUT", "/webhook")
    /\ LastEvent.got.code = 200
    /\ LastEvent.got.body.json
    /\ LastEvent.got.body.status = "OK"
    /\ LastEvent.got.body.data = ObjectsData(ObjectsMap(<<Object(TextList(<<t>>))>>))

\* C15 as stated: for a valid pipeline and an existing file, when the
\* service reports ready on the second status check and answers the upload
\* OK with one object whose text list is [t], the facade returns
\* {text: t, status: "completed"}.
C15_EndToEndText ==
    (/\ op \in FacadeOps
     /\ pc = "done"
     /\ Len(trace) > 0
     /\ ReadyOnSecondCheck
     /\ UploadAnsweredText(TextAbc))
    => outcome = Return([text |-> TextAbc, status |-> "completed"])

\* no text can be extracted from the envelope: its status is not OK, it has
\* no objects, or its first object has no text
NoTextIn(body) ==
    \/ body.status # "OK"
    \/ body.data.shape # "map"
    \/ body.data.objects.shape # "map"
    \/ body.data.objects.items = <<>>
    \/ body.data.objects.items[1].kind # "map"
    \/ body.data.objects.items[1].text.items = <<>>

\* C16 as stated: when no text can be extracted from the response to the
\* upload, the facade does not return status "completed"; the LLamaParse
\* facade returns {text: "", status: "failed"} without raising, and
\* process_document raises PipelineError.
C16_NoTextNotCompleted ==
    (/\ op \in FacadeOps
     /\ pc = "done"
     /\ Len(trace) > 0
     /\ IsReq(LastEvent, "PUT", "/webhook")
     /\ LastEvent.ans = "ok"
     /\ NoTextIn(LastEvent.got.body))
    => IF op \in LlamaOps
       THEN outcome = Return([text |-> TextBlank, status |-> "failed"])
       ELSE Raised("PipelineError")

\* the i-th event is a request of task creation (the validation or PUT
\* /task) that the service answered with HTTP 401
Unauthorized(i) ==
    /\ IsReq(trace[i], "POST", "/pipe/validate") \/ IsReq(trace[i], "PUT", "/task")
    /\ trace[i].got.code = 401

\* C17: when the service answers HTTP 401 during task creation, to the
\* validation or to PUT /task, the facade fails with AuthenticationError
\* and requests neither a status check nor an upload.
C17_UnauthorizedCreation ==
    \A i \in 1..Len(trace) :
        (op \in FacadeOps /\ Unauthorized(i))
        => /\ pc = "done"
           /\ Raised("AuthenticationError")
           /\ i = Len(trace)
           /\ Checks = 0
           /\ Count(trace, "PUT", "/webhook") = 0

\* C17 witness: a facade whose PUT /task was answered 401, after a
\* validation that passed.
C17_Witness ==
    /\ op \in LlamaOps
    /\ pc = "done"
    /\ Len(trace) = 2
    /\ Unauthorized(2)
    /\ Raised("AuthenticationError")

\* C18: when the file handed to a facade does not exist, the facade fails
\* with FileNotFoundError and requests nothing from the network: no
\* validation, creation, status check, upload or teardown.
C18_MissingFileLocal ==
    (op \in FacadeOps /\ ~args.file_exists)
    => /\ trace = <<>>
       /\ pc \in {"start", "done"}
       /\ pc = "done" => Raised("FileNotFoundError")

\* C18 witness: a LLamaParse facade whose pipeline file is there has failed
\* on a missing document.
C18_Witness ==
    /\ op \in LlamaOps
    /\ args.config_exists
    /\ ~args.file_exists
    /\ pc = "done"
    /\ Raised("FileNotFoundError")

\* C19: process_response raises for no envelope, and returns None when the
\* status is not "OK", when data or data.objects is absent, null or empty,
\* and when the text of the first object is absent or empty.
C19_ExtractNeverRaises ==
    (op = "process_response" /\ pc = "done")
    => /\ outcome.kind = "return"
       /\ NoTextIn(args.response) => outcome = Return(NoText)

\* C19 witness: an envelope with status OK and null data, on which the
\* navigation fails inside the function, has yielded None.
C19_Witness ==
    /\ op = "process_response"
    /\ pc = "done"
    /\ args.response.status = "OK"
    /\ args.response.data = NullData
    /\ outcome = Return(NoText)

\* C20: for an envelope with status "OK" and objects that are not empty,
\* process_response looks at the first entry of objects only and at the
\* first element of its text list only: it returns that element unchanged,
\* or None when the first entry has no text, whatever the further entries
\* and elements are.
C20_FirstObjectFirstText ==
    (/\ op = "process_response"
     /\ pc = "done"
     /\ args.response.status = "OK"
     /\ args.response.data.shape = "map"
     /\ args.response.data.objects.shape = "map"
     /\ args.response.data.objects.items # <<>>)
    => LET first == args.response.data.objects.items[1] IN
       IF first.kind = "map" /\ first.text.shape = "list" /\ first.text.items # <<>>
       THEN outcome = Return(first.text.items[1])
       ELSE IF first.kind # "map" \/ first.text.items = <<>>
       THEN outcome = Return(NoText)
       ELSE outcome = IF first.text.items[1] = TextBlank
                      THEN Return(NoText)
                      ELSE Return(first.text.items[1])

\* C20 witness: two objects, the first with the text list ["abc", ""], the
\* second with another text; "abc" was returned.
C20_Witness ==
    /\ op = "process_response"
    /\ pc = "done"
    /\ args.response.status = "OK"
    /\ args.response.data =
          ObjectsData(ObjectsMap(<<Object(TextList(<<TextAbc, TextBlank>>)),
                                   Object(TextList(<<TextBlank>>))>>))
    /\ outcome = Return(TextAbc)

\* C21 as stated: when the first text element is the JSON encoding of a
\* mapping with a content key, process_response returns that content value;
\* any other first element is returned as it is, and nothing is raised.
C21_UnwrapsEncodedContent ==
    (/\ op = "process_response"
     /\ pc = "done"
     /\ ~NoTextIn(args.response)
     /\ args.response.data.objects.items[1].text.shape = "list")
    => LET element == args.response.data.objects.items[1].text.items[1] IN
       IF element = TextEncoded
       THEN outcome = Return(TextAbc)
       ELSE outcome = Return(element)

\* C22: send_payload_to_webhook with a pattern that matches no file raises
\* ValueError, which is not an AparaviError, and requests no PUT /webhook.
C22_NoFilesLocalError ==
    (op = "send_payload_to_webhook" /\ pc = "done" /\ args.matched = 0)
    => /\ Raised("ValueError")
       /\ ~IsAparaviError(outcome.err)
       /\ Count(trace, "PUT", "/webhook") = 0
       /\ trace = <<>>

\* C22 witness: the call has ended on a pattern without a match.
C22_Witness ==
    /\ op = "send_payload_to_webhook"
    /\ pc = "done"
    /\ args.matched = 0
    /\ Raised("ValueError")

\* C23: a send_payload_to_webhook call that succeeds has requested PUT
\* /webhook exactly once, with the token and the type in the query, a raw
\* body for one file and one multipart body with a part per file for
\* several, and returns a list of one element, the parsed body of the
\* response.
C23_OneUploadOneResponse ==
    (op = "send_payload_to_webhook" /\ pc = "done" /\ outcome.kind = "return")
    => /\ Len(trace) = 1
       /\ IsReq(trace[1], "PUT", "/webhook")
       /\ trace[1].q.token = args.token
       /\ trace[1].q.type = args.task_type
       /\ trace[1].q.body.kind = (IF args.matched = 1 THEN "raw" ELSE "multipart")
       /\ trace[1].q.body.parts = args.matched
       /\ outcome.val.responses = <<trace[1].got.body>>

\* C23 witness: two files went out in one multipart request and one
\* response came back.
C23_Witness ==
    /\ op = "send_payload_to_webhook"
    /\ pc = "done"
    /\ args.matched = 2
    /\ outcome.kind = "return"
    /\ Len(outcome.val.responses) = 1
    /\ Count(trace, "PUT", "/webhook") = 1

\* C24 as stated: when PUT /webhook is answered with an HTTP error status,
\* send_payload_to_webhook raises an AparaviError whose message holds the
\* status code and the text of the body; on a network failure it raises an
\* AparaviError without them.
C24_UploadErrorCarriesBody ==
    (op = "send_payload_to_webhook" /\ pc = "done" /\ Len(trace) = 1)
    => LET resp == trace[1].got IN
       /\ resp.code >= HttpErrorFloor
          => /\ Raised("AparaviError")
             /\ "code" \in DOMAIN outcome.info
             /\ outcome.info.code = resp.code
             /\ "text" \in DOMAIN outcome.info
             /\ outcome.info.text = resp.body
       /\ resp = NetFail
          => /\ Raised("AparaviError")
             /\ "code" \notin DOMAIN outcome.info
             /\ "text" \notin DOMAIN outcome.info

\* C25: insert_llama_key writes the key into config.default.api_key of the
\* first component, in list order, whose provider is "llamaparse", and of
\* that one only; every other component, later matching ones included, is
\* as it was, and a pipeline without a matching component comes back
\* unmodified and without an error.
C25_FirstMatchGetsKey ==
    (op = "insert_llama_key" /\ pc = "done")
    => LET before == args.pipeline_data.components.items
           matches(i) == before[i].provider = "llamaparse"
       IN  /\ outcome.kind = "return"
           /\ outcome.val.components.shape = args.pipeline_data.components.shape
           /\ LET after == outcome.val.components.items IN
               /\ Len(after) = Len(before)
               /\ \A i \in 1..Len(before) :
                    IF matches(i) /\ \A j \in 1..(i - 1) : ~matches(j)
                    THEN /\ after[i].provider = before[i].provider
                         /\ after[i].config.shape = "map"
                         /\ after[i].config.default.shape = "map"
                         /\ after[i].config.default.api_key = LlamaKey
                    ELSE after[i] = before[i]

\* C25 witness: of two matching components behind another one, the first
\* got the key and the second kept its old one.
C25_Witness ==
    /\ op = "insert_llama_key"
    /\ pc = "done"
    /\ outcome.kind = "return"
    /\ Len(outcome.val.components.items) = 3
    /\ args.pipeline_data.components.items[1].provider = "other"
    /\ args.pipeline_data.components.items[2] =
          [provider |-> "llamaparse", config |-> ConfigAbsent]
    /\ outcome.val.components.items[2].config = ConfigMap(DefaultMap(LlamaKey))
    /\ outcome.val.components.items[3] =
          [provider |-> "llamaparse", config |-> ConfigMap(DefaultMap(OldKey))]

\* the error of the envelope is a text that holds "not found", whatever
\* the case
SaysNotFound(error) ==
    /\ error.shape \in {"str", "map"}
    /\ Contains(Lower(error.msg), NOT_FOUND)

\* C26: end_task and get_task_status, on an envelope with status "Error",
\* raise TaskNotFoundError when the error text contains "not found"
\* case-insensitively and the generic AparaviError otherwise; they return
\* the envelope (a missing data member read as None) only when its status
\* is not "Error".
C26_NotFoundOnEnd ==
    (/\ op \in {"end_task", "get_task_status"}
     /\ pc = "done"
     /\ ReceivedEnvelope(trace[1].got))
    => LET body == trace[1].got.body IN
       /\ body.status = "Error"
          => IF SaysNotFound(body.error)
             THEN Raised("TaskNotFoundError")
             ELSE Raised("AparaviError")
       /\ body.status # "Error"
          => /\ outcome.kind = "return"
             /\ outcome.val.status = body.status
             /\ outcome.val.data = IF body.data = AbsentData THEN NullData ELSE body.data
       /\ outcome.kind = "return" => body.status # "Error"

\* C26 witness: end_task was told "Task Not Found" in an Error envelope and
\* raised TaskNotFoundError.
C26_Witness ==
    /\ op = "end_task"
    /\ pc = "done"
    /\ trace[1].got = Http(200, Json("Error", NullData, ErrStr(MsgTaskNotFound)))
    /\ Raised("TaskNotFoundError")

\* the sleeps of the history, in order, and the time they add up to
Sleeps == SelectSeq(trace, LAMBDA e : e.ev = "sleep")
RECURSIVE TotalSlept(_)
TotalSlept(h) == IF h = <<>> THEN 0 ELSE h[1].d + TotalSlept(Tail(h))

\* the sleeps and status checks of the history, in order
PollEvents == SelectSeq(trace, LAMBDA e : e.ev = "sleep" \/ IsReq(e, "GET", "/task"))

C30_OtherErrorAborts ==
    (op \in {"wait_for_task_ready"} \cup CreatingOps)
    => \A i \in 1..Len(trace) :
        (IsReq(trace[i], "GET", "/task") /\ trace[i].ans \notin {"up", "notup"})
        => /\ i = Len(trace)
           /\ pc = "done"
           /\ outcome.kind = "raise"
           /\ "cause" \in DOMAIN outcome.info
           /\ outcome.info.cause = trace[i].ans

\* C30 witness: the second of three attempts failed on an authentication
\* error and the call raised.
C30_Witness ==
    /\ op = "wait_for_task_ready"
    /\ pc = "done"
    /\ max_retries = 3
    /\ Checks = 2
    /\ LastEvent.ans = "AuthenticationError"
    /\ outcome.kind = "raise"

\* C28 as stated: for a relative path p, get_resource_path(p) is the
\* absolute path made of the package root followed by p, whatever the
\* current working directory of the process.
C28_ResourcePathFromRoot ==
    (op = "get_resource_path" /\ pc = "done" /\ ~args.resource_path.abs)
    => outcome = Return(AbsPath(get_package_root.parts \o args.resource_path.parts))

\* C27: no operation changes the configuration the client was built with,
\* and of two facade invocations interleaved on the one client each makes
\* its status checks and its upload with the token and the type of the
\* task it created itself, never with those of the other's task.
C27_InvocationsIsolated ==
    /\ client = SharedClient
    /\ \A i \in Calls : \A k \in 1..Len(trace[i]) :
        (IsReq(trace[i][k], "GET", "/task") \/ IsReq(trace[i][k], "PUT", "/webhook"))
        => /\ task[i] # NoStatus
           /\ trace[i][k].q.token = task[i].token
           /\ trace[i][k].q.type = task[i].type
           /\ \A j \in Calls \ {i} :
                task[j] # NoStatus => trace[i][k].q.token # task[j].token

\* C27 witness: both invocations have created a task, of different types,
\* and both have polled and uploaded, the first after the second had
\* created its task.
C27_Witness ==
    /\ \A i \in Calls : pc[i] = "done" /\ task[i] # NoStatus
    /\ task[1].type # task[2].type
    /\ seen = <<task[1], task[2]>>
    /\ \A i \in Calls :
        /\ Count(trace[i], "PUT", "/webhook") = 1
        /\ Count(trace[i], "GET", "/task") = 2

\* the remote calls of the history, in order, without the sleeps
Requests == SelectSeq(trace, LAMBDA e : e.ev = "req")

\* C31: a facade invocation that returns has made its remote calls in the
\* order POST /pipe/validate, PUT /task, one or more GET /task, PUT
\* /webhook: one PUT /task, one PUT /webhook, the upload last.
C31_OneSequentialPipeline ==
    (op \in FacadeOps /\ pc = "done" /\ outcome.kind = "return")
    => LET n == Len(Requests) IN
       /\ n >= 4
       /\ IsReq(Requests[1], "POST", "/pipe/validate")
       /\ IsReq(Requests[2], "PUT", "/task")
       /\ \A k \in 3..(n - 1) : IsReq(Requests[k], "GET", "/task")
       /\ IsReq(Requests[n], "PUT", "/webhook")
       /\ Count(trace, "PUT", "/task") = 1
       /\ Count(trace, "PUT", "/webhook") = 1

\* C31 witness: a facade has returned the completed text after two status
\* checks and one multipart upload of the two files its pattern matched.
C31_Witness ==
    /\ op \in LlamaOps
    /\ pc = "done"
    /\ outcome.kind = "return"
    /\ outcome.val.status = "completed"
    /\ Checks = 2
    /\ LastEvent.q.body = "multipart"

\* C32 as stated: when an invocation that created a task has returned or
\* raised, DELETE /task has been requested for the token of that task.
C32_EveryTaskEnded ==
    (op \in FacadeOps /\ pc = "done" /\ task # NoStatus)
    => \E i \in 1..Len(trace) :
        /\ IsReq(trace[i], "DELETE", "/task")
        /\ trace[i].q.token = task.token

\* the last status check of wait_for_task_ready was answered with an
\* envelope whose status is not "Error", held by `result`, and the call
\* has ended on it
EndedOnStatus ==
    /\ op = "wait_for_task_ready"
    /\ pc = "done"
    /\ Len(trace) > 0
    /\ IsReq(LastEvent, "GET", "/task")
    /\ LastEvent.ans \in {"up", "notup"}
    /\ result # NoStatus

\* C33: wait_for_task_ready returns ready = true only with the status of a
\* check that succeeded and whose data is a non-empty mapping with serviceUp
\* true; a status with absent, null or empty data, or with serviceUp false
\* or missing, counts as unready: on the last attempt the call returns
\* (false, that status), and in no case does it raise.
C33_ReadyOnlyWhenServiceUp ==
    /\ (op = "wait_for_task_ready" /\ outcome.kind = "return" /\ outcome.val.ready)
       => /\ EndedOnStatus
          /\ outcome.val.status = result
          /\ result.status # "Error"
          /\ result.data.shape = "map"
          /\ result.data.serviceUp = "true"
    /\ (EndedOnStatus /\ ~(result.data.shape = "map" /\ result.data.serviceUp = "true"))
       => /\ result.data.shape \in {"null", "empty", "map"}
          /\ outcome = Return([ready |-> FALSE, status |-> result])
          /\ attempt = max_retries - 1

\* C33 witness: the call returned unready on a second check whose data was
\* a mapping without serviceUp.
C33_Witness ==
    /\ EndedOnStatus
    /\ Checks = 2
    /\ outcome.kind = "return"
    /\ ~outcome.val.ready
    /\ result.data.shape = "map"
    /\ result.data.serviceUp = "missing"

\* wait_for_task_ready was called with initial_delay > timeout > 0
WarmUpOutlastsTimeout ==
    /\ op = "wait_for_task_ready"
    /\ Truthy(timeout)
    /\ timeout[1] > 0
    /\ initial_delay > timeout[1]

\* C34 as stated: with initial_delay > timeout > 0 the call raises
\* TaskTimeoutError without a status check, whatever max_retries is.
C34_Original ==
    (WarmUpOutlastsTimeout /\ pc = "done")
    => Raised("TaskTimeoutError") /\ Checks = 0

\* C34: the time wait_for_task_ready compares with the timeout runs from
\* before the warm-up, so it is never less than the sum of all sleeps so
\* far; with initial_delay > timeout > 0 the call makes no status check,
\* and it ends with TaskTimeoutError when max_retries >= 1 and with
\* (false, no status) when max_retries = 0.
C34_WarmUpCounts ==
    /\ (op = "wait_for_task_ready" /\ pc # "warmup")
       => now - start_time >= TotalSlept(Sleeps)
    /\ WarmUpOutlastsTimeout
       => /\ Checks = 0
          /\ (pc = "done" /\ max_retries >= 1) => Raised("TaskTimeoutError")
          /\ (pc = "done" /\ max_retries = 0)
             => outcome = Return([ready |-> FALSE, status |-> NoStatus])

\* C34 witness: the call timed out right after a warm-up longer than the
\* timeout.
C34_Witness ==
    /\ WarmUpOutlastsTimeout
    /\ max_retries >= 1
    /\ pc = "done"
    /\ Raised("TaskTimeoutError")
    /\ trace = <<Sleep(initial_delay)>>

Max(a, b) == IF a >= b THEN a ELSE b

\* C35: wait_for_task_ready ends, whatever the service answers and for
\* every max_retries >= 0, after at most max_retries status checks and at
\* most max(1, max_retries) sleeps; with max_retries = 0 it returns
\* (false, no status) after the warm-up without a check, and
\* create_and_wait_for_task then raises TaskTimeoutError.
C35_PollTerminates ==
    /\ <>(pc = "done")
    /\ [](/\ Checks <= max_retries
          /\ Len(Sleeps) <= Max(1, max_retries)
          /\ (op = "wait_for_task_ready" /\ max_retries = 0 /\ pc = "done")
             => /\ outcome = Return([ready |-> FALSE, status |-> NoStatus])
                /\ trace = <<Sleep(initial_delay)>>
          /\ (op = "create_and_wait_for_task" /\ max_retries = 0
                /\ pc = "done" /\ task # NoStatus)
             => /\ Raised("TaskTimeoutError")
                /\ Checks = 0)

\* C35 witness: create_and_wait_for_task, called with max_retries = 0, has
\* raised TaskTimeoutError after the warm-up of the task it created.
C35_Witness ==
    /\ op = "create_and_wait_for_task"
    /\ max_retries = 0
    /\ task # NoStatus
    /\ pc = "done"
    /\ Raised("TaskTimeoutError")
    /\ LastEvent = Sleep(initial_delay)

\* C36 as stated: when a status check of wait_for_task_ready fails with
\* AuthenticationError (HTTP 401) or ValidationError (HTTP 422), the call
\* raises an error of that same kind.
C36_PollKeepsErrorKind ==
    (/\ op = "wait_for_task_ready"
     /\ pc = "done"
     /\ Len(trace) > 0
     /\ IsReq(LastEvent, "GET", "/task")
     /\ LastEvent.ans \in {"AuthenticationError", "ValidationError"})
    => Raised(LastEvent.ans)

\* C37 as stated: with timeout = 0 the time elapsed after a warm-up of
\* positive length exceeds the timeout, so wait_for_task_ready (given at
\* least one attempt) raises TaskTimeoutError before the first status check.
C37_ZeroTimeoutStrikes ==
    (/\ op = "wait_for_task_ready"
     /\ timeout = Some(0)
     /\ initial_delay >= 1
     /\ max_retries >= 1
     /\ pc = "done")
    => Raised("TaskTimeoutError") /\ Checks = 0

\* helper.process_response returned h and the extraction of
\* process_document ended with d on the same envelope: both yield the same
\* text, or the one returns None and the other finds no text (raises)
ExtractionsAgree(h, d) ==
    IF h.val = NoText THEN d.kind = "raise" ELSE d = Return(h.val)

\* C38 as stated: on every envelope helper.process_response returns the
\* text t exactly when the extraction of process_document yields t, and
\* returns None exactly when that extraction finds no text.
C38_ExtractionsAgree ==
    /\ (op = "process_response" /\ pc = "done")
       => ExtractionsAgree(outcome, process_document_extraction(args.response))
    /\ (op = "process_document_extraction" /\ pc = "done")
       => ExtractionsAgree(process_response(args.response), outcome)

\* C39 as stated: every failure of the extraction step of process_document
\* is an error of the AparaviError family; on a result with status "OK"
\* whose data is null or has no objects it is the no-text AparaviError.
C39_ExtractionFailsClassified ==
    (op = "process_document_extraction" /\ pc = "done")
    => /\ outcome.kind = "raise" => IsAparaviError(outcome.err)
       /\ (/\ args.response.status = "OK"
           /\ \/ args.response.data.shape \in {"null", "absent", "empty"}
              \/ args.response.data.objects.shape = "absent")
          => outcome = Raise("AparaviError",
                             [tmpl |-> "No text content found in processing result"])

\* every member of the mapping `before` other than `key` is in `after`
\* with the value it had, and `after` has no member that `before` and
\* `key` do not account for
KeepsOthers(before, after, key) ==
    /\ DOMAIN after = DOMAIN before \cup {key}
    /\ \A k \in DOMAIN before \ {key} : after[k] = before[k]

\* C40: insert_llama_key applied to its own result changes nothing; it
\* leaves the number and the order of the components and every component
\* but the first matching one as they were, and in that one only
\* config.default.api_key is set: every other member of the component, of
\* its config and of config.default keeps its value.
C40_IdempotentAndPreserving ==
    (op = "insert_llama_key" /\ pc = "done")
    => LET before == args.pipeline_data.components.items
           after == outcome.val.components.items
           matching == {i \in 1..Len(before) : before[i].provider = "llamaparse"}
       IN  /\ insert_llama_key(outcome.val, LlamaKey) = outcome.val
           /\ Len(after) = Len(before)
           /\ \A i \in 1..Len(before) :
                IF i \in matching /\ \A j \in matching : i <= j
                THEN /\ KeepsOthers(before[i], after[i], "config")
                     /\ after[i].config.default.api_key = LlamaKey
                     /\ IF before[i].config.shape = "absent"
                        THEN after[i].config = ConfigMap(DefaultMap(LlamaKey))
                        ELSE /\ KeepsOthers(before[i].config, after[i].config, "default")
                             /\ IF before[i].config.default.shape = "absent"
                                THEN after[i].config.default = DefaultMap(LlamaKey)
                                ELSE KeepsOthers(before[i].config.default,
                                                 after[i].config.default, "api_key")
                ELSE after[i] = before[i]

\* C40 witness: the first matching component, behind another one, held an
\* old key and other settings; it has the new key and the same settings.
C40_Witness ==
    /\ op = "insert_llama_key"
    /\ pc = "done"
    /\ Len(args.pipeline_data.components.items) = 2
    /\ args.pipeline_data.components.items[1].provider = "other"
    /\ args.pipeline_data.components.items[2] =
          [provider |-> "llamaparse", config |-> ConfigFull]
    /\ outcome.val.components.items[2].config.mode = "fast"
    /\ outcome.val.components.items[2].config.default.lang = "en"
    /\ outcome.val.components.items[2].config.default.api_key = LlamaKey

====
